---- MODULE Spec2Model ----
(***************************************************************************)
(* Model of the authenticated send pipeline of the MailSender extension:   *)
(* ErrorHandler (classification and recovery table), Validator,            *)
(* AuthService (credential manager), GmailApiService (send transport) and  *)
(* EmailService (orchestrator).  Every awaited call of the JavaScript      *)
(* source is one step of a process; messages are real strings and the      *)
(* classifier searches them for substrings exactly as String.includes.     *)
(***************************************************************************)
EXTENDS Integers, Sequences, FiniteSets, TLC

(***************************************************************************)
(* Bounds of the model.                                                    *)
(***************************************************************************)
\* POSTs a direct call of GmailApiService.sendEmail is followed for
MaxPosts == 5
\* POSTs a call of EmailService.sendEmailWithAttachment is followed for
MaxPipelinePosts == 2
\* POSTs each of two sends running at the same time is followed for
MaxRacePosts == 1
\* POSTs followed of a send to a rate-limiting endpoint
MaxRatePosts == 2
MaxListeners == 2

(***************************************************************************)
(* Strings.                                                                *)
(***************************************************************************)
\* String.prototype.includes: kw occurs in s as a contiguous substring
includes(s, kw) ==
  \E i \in 1..(Len(s) - Len(kw) + 1) : SubSeq(s, i, i + Len(kw) - 1) = kw

\* the i-th character of s, as a one-character string
CharAt(s, i) == SubSeq(s, i, i)

\* \s of the regular expressions (the characters of the model's alphabet)
IsWhitespace(c) == c = " "

\* String.prototype.trim: drop leading and trailing whitespace
trim(s) ==
  LET keep == {i \in 1..Len(s) : ~IsWhitespace(CharAt(s, i))}
      lo == CHOOSE i \in keep : \A j \in keep : i <= j
      hi == CHOOSE i \in keep : \A j \in keep : i >= j
  IN  IF keep = {} THEN "" ELSE SubSeq(s, lo, hi)

(***************************************************************************)
(* ErrorHandler (src/utils/error-handler.js).                              *)
(* A raw error is a record [message, status]; status 0 stands for an       *)
(* error object without code/status (errorCode = '').                      *)
(***************************************************************************)
TOKEN_EXPIRED == "auth.token_expired"
INVALID_CREDENTIALS == "auth.invalid_credentials"
PERMISSION_DENIED == "auth.permission_denied"
VERIFICATION_REQUIRED == "auth.verification_required"
INVALID_EMAIL == "validation.invalid_email"
MISSING_REQUIRED_FIELD == "validation.missing_field"
FILE_TOO_LARGE == "validation.file_too_large"
NETWORK_ERROR == "api.network_error"
RATE_LIMIT == "api.rate_limit"
SERVER_ERROR == "api.server_error"
QUOTA_EXCEEDED == "storage.quota_exceeded"
UNKNOWN == "unknown"

ERROR_TYPES ==
  { TOKEN_EXPIRED, INVALID_CREDENTIALS, PERMISSION_DENIED, VERIFICATION_REQUIRED,
    INVALID_EMAIL, MISSING_REQUIRED_FIELD, FILE_TOO_LARGE, "validation.invalid_file_type",
    NETWORK_ERROR, RATE_LIMIT, SERVER_ERROR, "api.timeout",
    QUOTA_EXCEEDED, "storage.corruption", "storage.access_denied" }

\* new Error(message), and an error carrying an HTTP status; retryAfter is
\* error.response.headers['retry-after'], "" when there is none
Error(msg) == [message |-> msg, status |-> 0, retryAfter |-> ""]
HttpError(msg, st) == [message |-> msg, status |-> st, retryAfter |-> ""]

\* a classifier that tests the status code before the message
classifyErrorStatusFirst(error) ==
  IF error.status = 403 THEN PERMISSION_DENIED
  ELSE IF error.status = 429 THEN RATE_LIMIT
  ELSE IF error.status >= 500 THEN SERVER_ERROR
  ELSE IF includes(error.message, "token") /\ includes(error.message, "expired")
    THEN TOKEN_EXPIRED
  ELSE UNKNOWN

classifyError(error) ==
  LET errorMessage == error.message
      errorCode == error.status
  IN  IF includes(errorMessage, "token") /\ includes(errorMessage, "expired")
        THEN TOKEN_EXPIRED
      ELSE IF includes(errorMessage, "invalid_grant") \/ includes(errorMessage, "unauthorized")
        THEN INVALID_CREDENTIALS
      ELSE IF includes(errorMessage, "permission") \/ errorCode = 403
        THEN PERMISSION_DENIED
      ELSE IF includes(errorMessage, "verification") \/ includes(errorMessage, "not completed")
        THEN VERIFICATION_REQUIRED
      ELSE IF errorCode = 429 \/ includes(errorMessage, "rate limit")
        THEN RATE_LIMIT
      ELSE IF errorCode >= 500 \/ includes(errorMessage, "server error")
        THEN SERVER_ERROR
      ELSE IF includes(errorMessage, "network") \/ includes(errorMessage, "fetch")
        THEN NETWORK_ERROR
      ELSE IF includes(errorMessage, "email") /\ includes(errorMessage, "invalid")
        THEN INVALID_EMAIL
      ELSE IF includes(errorMessage, "file") /\ includes(errorMessage, "large")
        THEN FILE_TOO_LARGE
      ELSE IF includes(errorMessage, "required")
        THEN MISSING_REQUIRED_FIELD
      ELSE IF includes(errorMessage, "quota") \/ includes(errorMessage, "QUOTA_BYTES")
        THEN QUOTA_EXCEEDED
      ELSE UNKNOWN

\* A raw error handed to classifyError is null, a bare string or an object;
\* message "" is an object without message, status 0 one without code/status.
NoRawError == [type |-> "null", message |-> "", status |-> 0]

\* a classifier that reads .message of a bare string
classifyRawErrorNoString(raw) ==
  IF raw.type = "null" THEN UNKNOWN
  ELSE classifyError([message |-> IF raw.type = "string" THEN "" ELSE raw.message,
                      status |-> raw.status])

\* classifyError for any raw error: a falsy one is 'unknown', a string is its
\* own message and has no code
classifyRawError(raw) ==
  IF raw.type = "null" \/ (raw.type = "string" /\ raw.message = "")
    THEN UNKNOWN
    ELSE classifyError([message |-> raw.message,
                        status |-> IF raw.type = "string" THEN 0 ELSE raw.status])

\* kinds that have an entry in RECOVERY_STRATEGIES
StrategyKinds == {TOKEN_EXPIRED, RATE_LIMIT, FILE_TOO_LARGE, NETWORK_ERROR}

RECOVERY_STRATEGIES ==
  [k \in StrategyKinds |->
     CASE k = TOKEN_EXPIRED ->
            [action |-> "refresh_token",
             userMessage |-> "Session expired. Refreshing authentication...",
             autoRetry |-> TRUE, maxRetries |-> 1]
       [] k = RATE_LIMIT ->
            [action |-> "exponential_backoff",
             userMessage |-> "Rate limit reached. Retrying in a moment...",
             autoRetry |-> TRUE, maxRetries |-> 3]
       [] k = FILE_TOO_LARGE ->
            [action |-> "user_action_required",
             userMessage |-> "File is too large. Please select a smaller file.",
             autoRetry |-> FALSE, maxRetries |-> 0]
       [] k = NETWORK_ERROR ->
            [action |-> "retry",
             userMessage |-> "Network error. Retrying...",
             autoRetry |-> TRUE, maxRetries |-> 2]]

\* a policy lookup that calls every kind retryable
isRetryableErrorAlways(errorType) == TRUE

isRetryableError(errorType) ==
  IF errorType \in StrategyKinds THEN RECOVERY_STRATEGIES[errorType].autoRetry ELSE FALSE

getUserMessage(error) ==
  LET errorType == classifyError(error)
  IN  IF errorType \in StrategyKinds
        THEN RECOVERY_STRATEGIES[errorType].userMessage
      ELSE IF includes(error.message, "network")
        THEN "Network connection error. Please check your internet connection."
      ELSE IF includes(error.message, "file")
        THEN "File processing error. Please try with a different file."
      ELSE "An unexpected error occurred. Please try again."

getActionableMessage(error) ==
  LET errorType == classifyError(error)
  IN  CASE errorType = TOKEN_EXPIRED ->
             "Please click \"Authenticate Gmail\" to refresh your session."
        [] errorType = VERIFICATION_REQUIRED ->
             "Please add yourself as a test user in Google Cloud Console."
        [] errorType = FILE_TOO_LARGE -> "Please select a file smaller than 1MB."
        [] errorType = INVALID_EMAIL -> "Please enter a valid email address."
        [] errorType = QUOTA_EXCEEDED ->
             "Please select a smaller file or clear some storage."
        [] errorType = NETWORK_ERROR ->
             "Please check your internet connection and try again."
        [] OTHER -> "Please try again or contact support if the problem persists."

\* the standardized error response (the timestamp is left out)
createErrorResponse(error, context) ==
  [success |-> FALSE,
   errorType |-> classifyError(error),
   message |-> getUserMessage(error),
   actionableMessage |-> getActionableMessage(error),
   isRetryable |-> isRetryableError(classifyError(error)),
   context |-> context]

(***************************************************************************)
(* Validator (src/unnamed/part_005).                                       *)
(***************************************************************************)
\* emailRegex.test(s) for /^[^\s@]+@[^\s@]+\.[^\s@]+$/
MatchesEmailRegex(s) ==
  \E i, j \in 1..Len(s) :
     /\ 1 < i /\ i + 1 < j /\ j < Len(s)
     /\ CharAt(s, i) = "@"
     /\ CharAt(s, j) = "."
     /\ \A k \in (1..Len(s)) \ {i} :
           ~IsWhitespace(CharAt(s, k)) /\ CharAt(s, k) # "@"

isValidEmail(email) ==
  IF email = "" THEN FALSE ELSE MatchesEmailRegex(trim(email))

(***************************************************************************)
(* Inputs and environment.                                                 *)
(***************************************************************************)
Procs == {"p1", "p2"}

\* null / undefined token
NoToken == ""
\* the token persisted by an earlier session, and the tokens the identity
\* provider issues when it has none cached
OldToken == "t1"
IssuedTokens == {"t2"}
Tokens == {OldToken} \cup IssuedTokens

\* recipients passed to sendEmailWithAttachment
Recipients == {"a@b.c", " a@b.c", "bad-address", "a@b"}

\* A base64 string is modelled by its length: chars characters, the last
\* pad of them '='.  NoData is the empty string (and null / undefined).
NoData == [chars |-> 0, pad |-> 0]

\* chrome.storage.local EMAIL_CONFIG values; NoConfig is an absent key, a
\* member that is missing or null is "" (NoData for attachmentData)
NoConfig == [subject |-> "", body |-> "", attachmentName |-> "", attachmentData |-> NoData,
             attachmentType |-> "", present |-> FALSE]
\* a configuration with the given subject and body and no attachment
TextConfig(subject, body) == [NoConfig EXCEPT !.subject = subject, !.body = body, !.present = TRUE]

RECURSIVE Repeat(_, _)
\* String.prototype.repeat
Repeat(str, n) ==
  IF n = 0 THEN ""
  ELSE LET half == Repeat(str, n \div 2)
       IN  half \o half \o (IF n % 2 = 1 THEN str ELSE "")

\* the limits of Validator.validateEmailConfig
MaxSubjectLength == 200
MaxBodyLength == 10000

Configs ==
  { NoConfig,
    TextConfig("Hi", "Hello"),
    TextConfig(" ", "Hello"),
    TextConfig("", "Hello"),
    TextConfig("Hi", "  "),
    TextConfig(Repeat("s", MaxSubjectLength + 1), "Hello"),
    TextConfig("Hi", "b" \o Repeat(" ", MaxBodyLength - 1) \o "b") }

\* window.ENV_CONFIG.GOOGLE_CLIENT_ID, '' when not injected
ClientIds == {"", "client-id"}

\* answers of the mail endpoint to one POST: status 0 is a rejected fetch,
\* message "" a body without error.message, retryAfterHeader "" a response
\* without a Retry-After header
Responses ==
  { [ok |-> TRUE, status |-> 200, message |-> "", id |-> "m1", retryAfterHeader |-> "", bodyRetryAfter |-> ""],
    [ok |-> TRUE, status |-> 200, message |-> "", id |-> "m2", retryAfterHeader |-> "", bodyRetryAfter |-> ""],
    [ok |-> FALSE, status |-> 0, message |-> "Failed to fetch", id |-> "",
      retryAfterHeader |-> "", bodyRetryAfter |-> ""],
    [ok |-> FALSE, status |-> 401, message |-> "Invalid Credentials", id |-> "",
      retryAfterHeader |-> "", bodyRetryAfter |-> ""],
    [ok |-> FALSE, status |-> 401, message |-> "Access token expired", id |-> "",
      retryAfterHeader |-> "", bodyRetryAfter |-> ""],
    [ok |-> FALSE, status |-> 403, message |-> "Insufficient Permission", id |-> "",
      retryAfterHeader |-> "", bodyRetryAfter |-> ""],
    [ok |-> FALSE, status |-> 429, message |-> "", id |-> "",
      retryAfterHeader |-> "", bodyRetryAfter |-> ""],
    [ok |-> FALSE, status |-> 500, message |-> "Backend Error", id |-> "",
      retryAfterHeader |-> "", bodyRetryAfter |-> ""] }

\* answers of an endpoint that limits the request rate: retryAfterHeader is
\* the Retry-After header of the HTTP response, bodyRetryAfter the member
\* headers['retry-after'] of the JSON error body
RateResponses ==
  { [ok |-> TRUE, status |-> 200, message |-> "", id |-> "m1",
      retryAfterHeader |-> "", bodyRetryAfter |-> ""],
    [ok |-> FALSE, status |-> 429, message |-> "", id |-> "",
      retryAfterHeader |-> "", bodyRetryAfter |-> ""],
    [ok |-> FALSE, status |-> 429, message |-> "Rate Limit Exceeded", id |-> "",
      retryAfterHeader |-> "5", bodyRetryAfter |-> ""],
    [ok |-> FALSE, status |-> 429, message |-> "", id |-> "",
      retryAfterHeader |-> "7", bodyRetryAfter |-> "2"] }

\* raw errors handed to ErrorHandler.classifyError
RawMessages ==
  { "", "something else", "token", "expired", "Token Expired",
    "access token expired", "token expired: unauthorized", "permission: token expired",
    "invalid_grant", "unauthorized network", "permission denied", "permission network",
    "verification required", "setup not completed", "rate limit exceeded",
    "rate limit: verification", "internal server error", "server error: rate limit",
    "network down", "Failed to fetch", "network server error", "invalid email",
    "email invalid: fetch", "file too large", "file too large: invalid email",
    "field required", "required file too large", "quota exceeded", "quota required" }
RawStatuses == {0, 400, 401, 403, 429, 500, 503}
RawErrors ==
  {NoRawError}
  \cup {[type |-> "string", message |-> m, status |-> 0] : m \in RawMessages}
  \cup {[type |-> "object", message |-> m, status |-> st] : m \in RawMessages, st \in RawStatuses}

\* callbacks that can be registered with onAuthStateChanged; the popup
\* registers one when it is opened
Listeners == {"l1", "l2"}
PopupListeners == <<"l1">>
\* the callbacks that throw when they are invoked
ThrowingListeners == {"l2"}

\* chrome.runtime.lastError.message of a failed chrome.identity.getAuthToken
IdpErrors == {"The user did not approve access.", "OAuth2 verification not completed"}

(***************************************************************************)
(* State.                                                                  *)
(***************************************************************************)
VARIABLES
  currentToken,   \* AuthService.currentToken
  storedToken,    \* chrome.storage.local AUTH_TOKEN
  idpCache,       \* token cached by chrome.identity
  initialized,    \* EmailService.initialized
  emailConfig,    \* chrome.storage.local EMAIL_CONFIG
  clientId,       \* Environment.getClientId()
  op,             \* the public operation each process is running
  recipient,      \* argument of sendEmailWithAttachment
  rawError,       \* argument of ErrorHandler.classifyError
  endpoint,       \* the answers the mail endpoint can give to a POST
  envelope,       \* a call of _buildEmailMessage: its arguments, boundary and message
  authStateListeners, \* AuthService.authStateListeners
  removedListeners, \* callbacks given to removeAuthStateListener and not subscribed since
  emailInput,     \* PopupController.elements.emailInput.value
  sendButtonDisabled, \* PopupController.elements.sendButton.disabled
  pc,             \* position of each process
  stack,          \* pending callers of each process, innermost last
  rv,             \* value returned or error thrown by the callee that just finished
  loc,            \* locals of the running function: token, attempt, interactive
  result,         \* outcome of the public operation once it completed
  hist            \* what each process did during its call (counters and logs)

authVars == <<currentToken, storedToken, idpCache>>
envVars == <<initialized, emailConfig, clientId>>
\* what the steps of an asynchronous operation leave alone: the arguments of
\* the calls and the listener registry
callVars == <<op, recipient, rawError, endpoint, envelope, authStateListeners,
              removedListeners, emailInput, sendButtonDisabled>>
vars == <<currentToken, storedToken, idpCache, initialized, emailConfig, clientId,
          op, recipient, rawError, endpoint, envelope, authStateListeners, removedListeners,
          emailInput, sendButtonDisabled,
          pc, stack, rv, loc,
          result, hist>>

NoRv == [kind |-> "none", val |-> ""]
Ret(v) == [kind |-> "ret", val |-> v]
Thrown(e) == [kind |-> "throw", val |-> e]

\* ok: whether the storage operation the function is awaiting succeeds
\* delay: the milliseconds the function is about to sleep
\* retryCallback: whether handleError was given a callback
NoLoc ==
  [tok |-> NoToken, attempt |-> 0, interactive |-> FALSE, ok |-> TRUE, delay |-> 0,
   retryCallback |-> FALSE]
\* The record of the AuthService call p is running: idp, the chrome.identity
\* requests in issue order; notified, the listener invocations in order;
\* introspected / acquired / returned, what getValidToken saw and gave back;
\* heldBefore, the tokens in memory and in storage when clearTokens started;
\* flip, the last change of the in-memory token between absent and present.
\* postTokens: the token of each POST; storageFailed: a storage operation failed;
\* delays: the sleeps of the transport in order, each with its kind ("rate"
\* or "backoff"), its milliseconds, the attempt number of a backoff sleep and
\* the number of POSTs answered before it; attachments: what
\* sendEmailWithAttachment handed to the transport; callbacks: the invocations
\* of the retryCallback of handleError in order, each with its outcome
NoHist ==
  [posts |-> 0, postLog |-> <<>>, net |-> {}, transportCalls |-> 0,
   refreshCalls |-> 0, refreshErrors |-> 0, tokenErrors |-> 0, sleeps |-> 0,
   toHeaders |-> {}, transportResult |-> NoRv,
   idp |-> <<>>, notified |-> <<>>, introspected |-> <<>>, acquired |-> {},
   returned |-> NoRv, heldBefore |-> {}, flip |-> "none", storageFailed |-> FALSE, postTokens |-> <<>>,
   delays |-> <<>>, attachments |-> <<>>, callbacks |-> <<>>]

(***************************************************************************)
(* Calls, returns and exceptions.                                          *)
(***************************************************************************)
SetCtl(p, l, st, r, lc, res) ==
  /\ pc' = [pc EXCEPT ![p] = l]
  /\ stack' = [stack EXCEPT ![p] = st]
  /\ rv' = [rv EXCEPT ![p] = r]
  /\ loc' = [loc EXCEPT ![p] = lc]
  /\ result' = [result EXCEPT ![p] = res]

\* continue at label l of the running function with locals lc
GotoWith(p, l, lc) == SetCtl(p, l, stack[p], NoRv, lc, result[p])
Goto(p, l) == GotoWith(p, l, loc[p])

\* await target(...): the caller resumes at label cont with its locals lc
CallWith(p, target, cont, lc, calleeLoc) ==
  SetCtl(p, target, Append(stack[p], [pc |-> cont, loc |-> lc]), NoRv, calleeLoc, result[p])

\* the running function completes with outcome r (a value or a thrown
\* error): the caller resumes and sees r, or the public operation is done
Complete(p, r) ==
  IF stack[p] = <<>>
    THEN SetCtl(p, "done", <<>>, NoRv, NoLoc, r)
    ELSE LET f == stack[p][Len(stack[p])]
         IN  SetCtl(p, f.pc, SubSeq(stack[p], 1, Len(stack[p]) - 1), r, f.loc, result[p])
Return(p, v) == Complete(p, Ret(v))
Throw(p, e) == Complete(p, Thrown(e))

Bump(p, field) == hist' = [hist EXCEPT ![p][field] = @ + 1]
\* record the kind of a network request p issues: "introspect" (tokeninfo),
\* "idp_interactive" / "idp_silent" (chrome.identity.getAuthToken), "post"
Net(p, kind) == hist' = [hist EXCEPT ![p].net = @ \cup {kind}]
SetHist(p, h) == hist' = [hist EXCEPT ![p] = h]
\* a storage operation awaited by p failed
StorageFailed(p) == hist' = [hist EXCEPT ![p].storageFailed = TRUE]
\* the history without the record of the AuthService call that just
\* completed: the caller has taken its outcome and moves on
AuthForget(h) ==
  [h EXCEPT !.idp = <<>>, !.notified = <<>>, !.introspected = <<>>, !.acquired = {},
            !.returned = NoRv, !.heldBefore = {}, !.flip = "none"]

(***************************************************************************)
(* AuthService (src/unnamed/part_002).                                     *)
(***************************************************************************)
\* the catch block of authenticate: the error it throws for a caught error
authenticateCatch(error) ==
  IF classifyError(error) = VERIFICATION_REQUIRED
    THEN Error("App verification required. Please add yourself as a test user in Google Cloud Console.")
    ELSE Error("Authentication failed: " \o getUserMessage(error))

\* the catch block of getValidToken
getValidTokenCatch(error) ==
  Error("Failed to get valid token: " \o getUserMessage(error))

\* await this.authenticate(interactive), resuming at cont
CallAuthenticate(p, interactive, cont) ==
  CallWith(p, "au_start", cont, loc[p], [NoLoc EXCEPT !.interactive = interactive])

\* a notification that ends at the first listener that throws
notifyAuthStateChangeUncaught(h, isAuthenticated, token) ==
  LET throwing == {i \in 1..Len(authStateListeners) :
                     authStateListeners[i] \in ThrowingListeners}
      last == IF throwing = {} THEN Len(authStateListeners)
              ELSE CHOOSE i \in throwing : \A j \in throwing : i <= j
  IN  [h EXCEPT !.notified =
         @ \o [i \in 1..last |->
                 [listener |-> authStateListeners[i],
                  authenticated |-> isAuthenticated, token |-> token,
                  threw |-> authStateListeners[i] \in ThrowingListeners]]]

\* _notifyAuthStateChange(isAuthenticated, token): the history h extended
\* by the invocation of every registered listener, in registration order (an
\* exception of a listener is caught and logged)
notifyAuthStateChange(h, isAuthenticated, token) ==
  [h EXCEPT !.notified =
     @ \o [i \in 1..Len(authStateListeners) |->
             [listener |-> authStateListeners[i],
              authenticated |-> isAuthenticated, token |-> token,
              threw |-> authStateListeners[i] \in ThrowingListeners]]]

\* authStateListeners after splice(index, 1) at the first index of callback;
\* unchanged when indexOf gives -1
removeFirst(listeners, callback) ==
  LET found == {i \in 1..Len(listeners) : listeners[i] = callback}
      index == CHOOSE i \in found : \A j \in found : i <= j
  IN  IF found = {} THEN listeners
      ELSE SubSeq(listeners, 1, index - 1) \o SubSeq(listeners, index + 1, Len(listeners))

\* onAuthStateChanged(callback): a function is pushed, anything else ignored
OnAuthStateChanged(callback) ==
  /\ Len(authStateListeners) < MaxListeners
  /\ IF callback \in Listeners
       THEN /\ authStateListeners' = Append(authStateListeners, callback)
            /\ removedListeners' = removedListeners \ {callback}
       ELSE UNCHANGED <<authStateListeners, removedListeners>>
  /\ UNCHANGED <<authVars, envVars, op, recipient, rawError, endpoint, envelope,
                 emailInput, sendButtonDisabled,
                 pc, stack, rv, loc, result, hist>>

\* removeAuthStateListener(callback)
RemoveAuthStateListener(callback) ==
  /\ authStateListeners' = removeFirst(authStateListeners, callback)
  /\ removedListeners' = removedListeners \cup {callback}
  /\ UNCHANGED <<authVars, envVars, op, recipient, rawError, endpoint, envelope,
                 emailInput, sendButtonDisabled,
                 pc, stack, rv, loc, result, hist>>

\* the history h of a step that assigns token t to this.currentToken
Assigned(h, t) ==
  [h EXCEPT !.flip = IF (currentToken = NoToken) = (t = NoToken) THEN @
                     ELSE IF t = NoToken THEN "absent" ELSE "present"]

\* chrome.storage.local performs the operations it is sent in the order they
\* were issued: a set or remove takes effect (or fails and changes nothing)
\* when it is issued, and the awaiting function learns the outcome when it
\* resumes.  The stored token if the write of token t succeeds or fails:
StorageWrite(t, ok) == IF ok THEN t ELSE storedToken

\* await this.initialize() of AuthService, resuming at cont: the function
\* starts by issuing StorageService.getAuthToken
CallInitialize(p, cont) ==
  CallWith(p, "ai_start", cont, loc[p], [NoLoc EXCEPT !.tok = storedToken])

\* initialize: the stored token was read; a present one is sent to introspection
AiStart(p) ==
  /\ pc[p] = "ai_start"
  /\ \/ /\ loc[p].tok # NoToken
        /\ Goto(p, "ai_validate")
        /\ Net(p, "introspect")
     \/ /\ loc[p].tok = NoToken
        /\ Return(p, TRUE)
        /\ UNCHANGED hist
     \/ \* StorageService.getAuthToken throws: caught, initialize returns false
        /\ Return(p, FALSE)
        /\ StorageFailed(p)
  /\ UNCHANGED <<authVars, envVars, callVars>>

\* initialize: the introspection answered; a live token is adopted and the
\* listeners are told, a dead one is removed from storage
AiValidate(p) ==
  /\ pc[p] = "ai_validate"
  /\ \/ /\ currentToken' = loc[p].tok
        /\ Return(p, TRUE)
        /\ SetHist(p, notifyAuthStateChange(Assigned(hist[p], loc[p].tok), TRUE, loc[p].tok))
        /\ UNCHANGED storedToken
     \/ \E ok \in BOOLEAN :
          /\ storedToken' = StorageWrite(NoToken, ok)
          /\ GotoWith(p, "ai_clear", [loc[p] EXCEPT !.ok = ok])
          /\ UNCHANGED <<currentToken, hist>>
  /\ UNCHANGED <<idpCache, envVars, callVars>>

\* initialize: StorageService.clearAuthToken completed
AiClear(p) ==
  /\ pc[p] = "ai_clear"
  /\ IF loc[p].ok
       THEN /\ Return(p, TRUE)
            /\ UNCHANGED hist
       ELSE /\ Return(p, FALSE)
            /\ StorageFailed(p)
  /\ UNCHANGED <<authVars, envVars, callVars>>

\* getValidToken: an in-memory token is sent to introspection, else storage is read
GvtStart(p) ==
  /\ pc[p] = "gvt_start"
  /\ IF currentToken # NoToken
       THEN /\ GotoWith(p, "gvt_current", [loc[p] EXCEPT !.tok = currentToken])
            /\ Net(p, "introspect")
       ELSE /\ GotoWith(p, "gvt_storage", [loc[p] EXCEPT !.tok = storedToken])
            /\ UNCHANGED hist
  /\ UNCHANGED <<authVars, envVars, callVars>>

\* getValidToken: the introspection of the in-memory token answered; on
\* "live" the function returns this.currentToken as it is now
GvtCurrent(p) ==
  /\ pc[p] = "gvt_current"
  /\ \/ /\ Return(p, currentToken)
        /\ SetHist(p, [hist[p] EXCEPT
                         !.introspected = Append(@, [tok |-> loc[p].tok, live |-> TRUE]),
                         !.returned = Ret(currentToken)])
     \/ /\ GotoWith(p, "gvt_storage", [loc[p] EXCEPT !.tok = storedToken])
        /\ SetHist(p, [hist[p] EXCEPT
                         !.introspected = Append(@, [tok |-> loc[p].tok, live |-> FALSE])])
  /\ UNCHANGED <<authVars, envVars, callVars>>

\* getValidToken: StorageService.getAuthToken answered
GvtStorage(p) ==
  /\ pc[p] = "gvt_storage"
  /\ \/ /\ loc[p].tok # NoToken
        /\ Goto(p, "gvt_stored")
        /\ Net(p, "introspect")
     \/ /\ loc[p].tok = NoToken
        /\ CallAuthenticate(p, TRUE, "gvt_auth")
        /\ UNCHANGED hist
     \/ /\ Throw(p, getValidTokenCatch(Error("Failed to retrieve authentication token")))
        /\ StorageFailed(p)
  /\ UNCHANGED <<authVars, envVars, callVars>>

\* getValidToken: the introspection of the stored token answered
GvtStored(p) ==
  /\ pc[p] = "gvt_stored"
  /\ \/ /\ currentToken' = loc[p].tok
        /\ Return(p, loc[p].tok)
        /\ SetHist(p, [Assigned(hist[p], loc[p].tok) EXCEPT
                         !.introspected = Append(@, [tok |-> loc[p].tok, live |-> TRUE]),
                         !.returned = Ret(loc[p].tok)])
     \/ /\ CallAuthenticate(p, TRUE, "gvt_auth")
        /\ SetHist(p, [hist[p] EXCEPT
                         !.introspected = Append(@, [tok |-> loc[p].tok, live |-> FALSE])])
        /\ UNCHANGED currentToken
  /\ UNCHANGED <<storedToken, idpCache, envVars, callVars>>

\* getValidToken: authenticate(true) completed
GvtAuth(p) ==
  /\ pc[p] = "gvt_auth"
  /\ IF rv[p].kind = "throw"
       THEN /\ Throw(p, getValidTokenCatch(rv[p].val))
            /\ UNCHANGED hist
       ELSE /\ Return(p, rv[p].val)
            /\ SetHist(p, [hist[p] EXCEPT !.returned = Ret(rv[p].val)])
  /\ UNCHANGED <<authVars, envVars, callVars>>

\* the last request of the log of chrome.identity requests completed with outcome o
IdpOutcome(h, o) == [h EXCEPT !.idp[Len(h.idp)].outcome = o]

\* authenticate: client id check, then the request to chrome.identity
AuStart(p) ==
  /\ pc[p] = "au_start"
  /\ IF clientId = ""
       THEN /\ Throw(p, authenticateCatch(Error("Google Client ID not configured")))
            /\ UNCHANGED hist
       ELSE /\ Goto(p, "au_idp")
            /\ SetHist(p, [hist[p] EXCEPT
                 !.net = @ \cup {IF loc[p].interactive THEN "idp_interactive" ELSE "idp_silent"},
                 !.idp = Append(@, [interactive |-> loc[p].interactive,
                                    outcome |-> "pending"])])
  /\ UNCHANGED <<authVars, envVars, callVars>>

\* authenticate: chrome.identity.getAuthToken called back.  A cached token is
\* handed out again; otherwise the provider issues some token, fails with
\* lastError, or calls back without a token.  A token becomes the in-memory
\* token and StorageService.saveAuthToken is issued.
AuIdp(p) ==
  /\ pc[p] = "au_idp"
  /\ \/ \E t \in (IF idpCache # NoToken THEN {idpCache} ELSE IssuedTokens), ok \in BOOLEAN :
          /\ currentToken' = t
          /\ idpCache' = t
          /\ storedToken' = StorageWrite(t, ok)
          /\ GotoWith(p, "au_save", [loc[p] EXCEPT !.tok = t, !.ok = ok])
          /\ SetHist(p, [IdpOutcome(Assigned(hist[p], t), "token") EXCEPT
                           !.acquired = @ \cup {t}])
     \/ \E m \in IdpErrors :
          /\ Throw(p, authenticateCatch(Error(m)))
          /\ SetHist(p, IdpOutcome(hist[p], "failed"))
          /\ UNCHANGED authVars
     \/ /\ Throw(p, authenticateCatch(Error("Authentication failed")))
        /\ SetHist(p, IdpOutcome(hist[p], "failed"))
        /\ UNCHANGED authVars
  /\ UNCHANGED <<envVars, callVars>>

\* authenticate: StorageService.saveAuthToken completed; after a successful
\* save the listeners are told and the token is returned
AuSave(p) ==
  /\ pc[p] = "au_save"
  /\ IF loc[p].ok
       THEN /\ Return(p, loc[p].tok)
            /\ SetHist(p, notifyAuthStateChange(hist[p], TRUE, loc[p].tok))
       ELSE /\ Throw(p, authenticateCatch(Error("Failed to save authentication token")))
            /\ StorageFailed(p)
  /\ UNCHANGED <<authVars, envVars, callVars>>

\* the history of p when it enters clearTokens
CtBegin(p) == [hist[p] EXCEPT !.heldBefore = {currentToken, storedToken} \ {NoToken}]

\* clearTokens: removeCachedAuthToken is called for an in-memory token; with
\* none in memory StorageService.clearAuthToken is issued at once
CtStart(p) ==
  /\ pc[p] = "ct_start"
  /\ IF currentToken # NoToken
       THEN /\ GotoWith(p, "ct_remove", [loc[p] EXCEPT !.tok = currentToken])
            /\ UNCHANGED storedToken
       ELSE \E ok \in BOOLEAN :
              /\ storedToken' = StorageWrite(NoToken, ok)
              /\ GotoWith(p, "ct_clear", [loc[p] EXCEPT !.ok = ok])
  /\ SetHist(p, CtBegin(p))
  /\ UNCHANGED <<currentToken, idpCache, envVars, callVars>>

\* clearTokens: chrome.identity.removeCachedAuthToken called back and
\* StorageService.clearAuthToken is issued
CtRemove(p) ==
  /\ pc[p] = "ct_remove"
  /\ idpCache' = IF idpCache = loc[p].tok THEN NoToken ELSE idpCache
  /\ \E ok \in BOOLEAN :
       /\ storedToken' = StorageWrite(NoToken, ok)
       /\ GotoWith(p, "ct_clear", [loc[p] EXCEPT !.ok = ok])
  /\ UNCHANGED <<currentToken, envVars, callVars, hist>>

\* clearTokens: StorageService.clearAuthToken completed; after a successful
\* removal the in-memory token is dropped and the listeners are told
CtClear(p) ==
  /\ pc[p] = "ct_clear"
  /\ IF loc[p].ok
       THEN /\ currentToken' = NoToken
            /\ Return(p, TRUE)
            /\ SetHist(p, notifyAuthStateChange(Assigned(hist[p], NoToken), FALSE, NoToken))
       ELSE /\ Throw(p, Error("Failed to clear tokens"))
            /\ StorageFailed(p)
            /\ UNCHANGED currentToken
  /\ UNCHANGED <<storedToken, idpCache, envVars, callVars>>

\* refreshToken: clearTokens completed
RtCleared(p) ==
  /\ pc[p] = "rt_cleared"
  /\ IF rv[p].kind = "throw"
       THEN CallAuthenticate(p, TRUE, "rt_interactive")
       ELSE CallAuthenticate(p, FALSE, "rt_silent")
  /\ UNCHANGED <<authVars, envVars, callVars, hist>>

\* refreshToken: authenticate(false) completed
RtSilent(p) ==
  /\ pc[p] = "rt_silent"
  /\ IF rv[p].kind = "throw"
       THEN CallAuthenticate(p, TRUE, "rt_interactive")
       ELSE Return(p, rv[p].val)
  /\ UNCHANGED <<authVars, envVars, callVars, hist>>

\* refreshToken: the interactive fallback completed
RtInteractive(p) ==
  /\ pc[p] = "rt_interactive"
  /\ IF rv[p].kind = "throw"
       THEN Throw(p, Error("Token refresh failed: " \o getUserMessage(rv[p].val)))
       ELSE Return(p, rv[p].val)
  /\ UNCHANGED <<authVars, envVars, callVars, hist>>

\* handleAuthError(error), awaited inside a try whose continuation is cont
handleAuthError(p, error, cont) ==
  LET errorType == classifyError(error)
      caller == [pc |-> cont, loc |-> loc[p]]
  IN  CASE errorType = TOKEN_EXPIRED ->
             \* return await this.refreshToken(), which first awaits clearTokens
             SetCtl(p, "ct_start",
                    stack[p] \o <<caller, [pc |-> "rt_cleared", loc |-> NoLoc]>>,
                    NoRv, NoLoc, result[p])
        [] errorType = INVALID_CREDENTIALS ->
             SetCtl(p, "ct_start",
                    stack[p] \o <<caller, [pc |-> "hae_cleared", loc |-> NoLoc]>>,
                    NoRv, NoLoc, result[p])
        [] errorType = PERMISSION_DENIED ->
             SetCtl(p, cont, stack[p],
                    Thrown(Error("Permission denied. Please check your Google Cloud Console settings.")),
                    loc[p], result[p])
        [] OTHER ->
             SetCtl(p, cont, stack[p], Thrown(error), loc[p], result[p])

(***************************************************************************)
(* GmailApiService (src/unnamed/part_003).                                 *)
(***************************************************************************)
maxRetries == 3
rateLimitDelay == 1000

\* the To header line written by _buildEmailMessage
ToHeader(emailData) == "To: " \o emailData.to

\* a retry that posts again with the token of the previous POST instead of
\* asking getValidToken
sendEmailKeepToken(p, cont, lc) ==
  IF hist[p].postTokens = <<>>
    THEN SetCtl(p, "gvt_start",
                stack[p] \o <<[pc |-> cont, loc |-> lc], [pc |-> "se_token", loc |-> NoLoc]>>,
                NoRv, NoLoc, result[p])
    ELSE SetCtl(p, "se_token", stack[p] \o <<[pc |-> cont, loc |-> lc]>>,
                Ret(hist[p].postTokens[Len(hist[p].postTokens)]), NoLoc, result[p])

\* await this.sendEmail(...), resuming at cont with locals lc: sendEmail
\* starts by awaiting getValidToken
sendEmail(p, cont, lc) ==
  SetCtl(p, "gvt_start",
         stack[p] \o <<[pc |-> cont, loc |-> lc], [pc |-> "se_token", loc |-> NoLoc]>>,
         NoRv, NoLoc, result[p])

\* the error _makeApiRequest throws for a failed POST: error.response is
\* the parsed JSON body, the headers of the HTTP response are not copied
apiRequestError(r) ==
  IF r.status = 0
    THEN Error("Failed to fetch")
    ELSE [HttpError(IF r.message # "" THEN r.message
                    ELSE "API request failed with status " \o ToString(r.status),
                    r.status)
            EXCEPT !.retryAfter = r.bodyRetryAfter]

\* parseInt of a string: the value of its leading decimal digits, NaN (-1)
\* when it does not start with a digit
NaN == -1
DigitValue(c) == CHOOSE d \in 0..9 : ToString(d) = c
IsDigit(c) == \E d \in 0..9 : ToString(d) = c
RECURSIVE DigitsValue(_, _)
DigitsValue(str, acc) ==
  IF str = "" \/ ~IsDigit(CharAt(str, 1)) THEN acc
  ELSE DigitsValue(SubSeq(str, 2, Len(str)), acc * 10 + DigitValue(CharAt(str, 1)))
parseInt(str) ==
  LET t == trim(str)
  IN  IF t = "" \/ ~IsDigit(CharAt(t, 1)) THEN NaN ELSE DigitsValue(t, 0)

\* _extractRetryAfter(error): milliseconds, 0 for null
extractRetryAfter(error) ==
  IF error.retryAfter # ""
    THEN (IF parseInt(error.retryAfter) = NaN THEN NaN ELSE parseInt(error.retryAfter) * 1000)
    ELSE 0

\* _handleRateLimit: this._extractRetryAfter(error) || this.rateLimitDelay
\* (null, 0 and NaN are falsy)
retryAfter(error) ==
  IF extractRetryAfter(error) \in {0, NaN} THEN rateLimitDelay ELSE extractRetryAfter(error)

\* the delay of _retryWithBackoff before the send of the given attempt
backoffDelay(attempt) == (2 ^ attempt) * 1000

\* _retryWithBackoff(emailData, attachments, attempt) up to its sleep
retryWithBackoff(p, attempt) ==
  IF attempt > maxRetries
    THEN Return(p, createErrorResponse(Error("Maximum retry attempts exceeded"),
                                       [attempts |-> attempt]))
    ELSE GotoWith(p, "rb_sleep", [NoLoc EXCEPT !.attempt = attempt])

\* an error handler that backs off and retries after every failure that is
\* not an expired token
handleApiErrorRetryAll(p, error, h) ==
  IF classifyError(error) = TOKEN_EXPIRED
    THEN /\ handleAuthError(p, error, "hae_refreshed")
         /\ SetHist(p, [h EXCEPT !.refreshCalls = @ + 1])
    ELSE /\ retryWithBackoff(p, 1)
         /\ SetHist(p, h)

\* _handleApiError(error, ...) run by the catch block of sendEmail; h is the
\* history of p including what the calling step did
handleApiError(p, error, h) ==
  LET errorType == classifyError(error)
  IN  IF errorType = TOKEN_EXPIRED
        THEN /\ handleAuthError(p, error, "hae_refreshed")
             /\ SetHist(p, [h EXCEPT !.refreshCalls = @ + 1])
      ELSE IF errorType = RATE_LIMIT
        THEN /\ GotoWith(p, "rl_sleep", [loc[p] EXCEPT !.delay = retryAfter(error)])
             /\ SetHist(p, h)
      ELSE IF errorType = NETWORK_ERROR
        THEN /\ retryWithBackoff(p, 1)
             /\ SetHist(p, h)
      ELSE /\ Return(p, createErrorResponse(error, <<>>))
           /\ SetHist(p, h)

\* how far the model follows the POSTs of p's call
PostLimit(p) ==
  IF \E q \in Procs \ {p} : op[q] # "none" THEN MaxRacePosts
  ELSE IF endpoint = RateResponses THEN MaxRatePosts
  ELSE IF op[p] = "sendEmail" THEN MaxPosts
  ELSE MaxPipelinePosts

\* sendEmail: getValidToken completed; with a token the envelope is built
\* and the POST is issued
SeToken(p) ==
  /\ pc[p] = "se_token"
  /\ IF rv[p].kind = "throw"
       THEN handleApiError(p, rv[p].val, [AuthForget(hist[p]) EXCEPT !.tokenErrors = @ + 1])
       ELSE /\ hist[p].posts < PostLimit(p)
            /\ GotoWith(p, "se_post", [loc[p] EXCEPT !.tok = rv[p].val])
            /\ SetHist(p, [AuthForget(hist[p]) EXCEPT !.posts = @ + 1,
                                          !.net = @ \cup {"post"},
                                          !.postTokens = Append(@, rv[p].val),
                                          !.toHeaders = @ \cup {ToHeader([to |-> recipient[p]])}])
  /\ UNCHANGED <<authVars, envVars, callVars>>

\* sendEmail: the mail endpoint answered the POST
SePost(p) ==
  /\ pc[p] = "se_post"
  /\ \E r \in endpoint :
       LET h == [hist[p] EXCEPT !.postLog = Append(@, r)]
       IN  IF r.ok
             THEN /\ Return(p, [success |-> TRUE, messageId |-> r.id, threadId |-> r.id])
                  /\ SetHist(p, h)
             ELSE handleApiError(p, apiRequestError(r), h)
  /\ UNCHANGED <<authVars, envVars, callVars>>

\* a handler that sends again although the refresh failed
HaeRefreshedResend(p) ==
  /\ pc[p] = "hae_refreshed"
  /\ sendEmail(p, "hae_resent", loc[p])
  /\ SetHist(p, IF rv[p].kind = "throw"
                  THEN [AuthForget(hist[p]) EXCEPT !.refreshErrors = @ + 1]
                  ELSE AuthForget(hist[p]))
  /\ UNCHANGED <<authVars, envVars, callVars>>

\* _handleApiError: handleAuthError completed
HaeRefreshed(p) ==
  /\ pc[p] = "hae_refreshed"
  /\ IF rv[p].kind = "throw"
       THEN /\ Return(p, createErrorResponse(rv[p].val, <<>>))
            /\ SetHist(p, [AuthForget(hist[p]) EXCEPT !.refreshErrors = @ + 1])
       ELSE /\ sendEmail(p, "hae_resent", loc[p])
            /\ SetHist(p, AuthForget(hist[p]))
  /\ UNCHANGED <<authVars, envVars, callVars>>

\* _handleApiError: the send repeated with the new token completed
HaeResent(p) ==
  /\ pc[p] = "hae_resent"
  /\ IF rv[p].kind = "throw"
       THEN Return(p, createErrorResponse(rv[p].val, <<>>))
       ELSE Return(p, rv[p].val)
  /\ UNCHANGED <<authVars, envVars, callVars, hist>>

\* _handleRateLimit: the retry-after sleep ended
RlSleep(p) ==
  /\ pc[p] = "rl_sleep"
  /\ retryWithBackoff(p, 1)
  /\ SetHist(p, [hist[p] EXCEPT
                   !.sleeps = @ + 1,
                   !.delays = Append(@, [kind |-> "rate", ms |-> loc[p].delay, attempt |-> 0,
                                         after |-> Len(hist[p].postLog)])])
  /\ UNCHANGED <<authVars, envVars, callVars>>

\* _retryWithBackoff: the backoff sleep ended, the send is repeated
RbSleep(p) ==
  /\ pc[p] = "rb_sleep"
  /\ sendEmail(p, "rb_sent", loc[p])
  /\ SetHist(p, [hist[p] EXCEPT
                   !.sleeps = @ + 1,
                   !.delays = Append(@, [kind |-> "backoff", ms |-> backoffDelay(loc[p].attempt),
                                         attempt |-> loc[p].attempt,
                                         after |-> Len(hist[p].postLog)])])
  /\ UNCHANGED <<authVars, envVars, callVars>>

\* _retryWithBackoff: the repeated send completed
RbSent(p) ==
  /\ pc[p] = "rb_sent"
  /\ IF rv[p].kind = "throw"
       THEN retryWithBackoff(p, loc[p].attempt + 1)
       ELSE Return(p, rv[p].val)
  /\ UNCHANGED <<authVars, envVars, callVars, hist>>

(***************************************************************************)
(* ErrorHandler.handleError (src/utils/error-handler.js).                  *)
(***************************************************************************)
\* what a call of retryCallback can do: resolve with a value or reject with
\* an error
RetryOutcomes ==
  { Ret("sent"), Thrown(Error("Failed to fetch")), Thrown(Error("something else")),
    Thrown(HttpError("Rate Limit Exceeded", 429)) }

\* a retry budget of one more than the policy gives
handleErrorMaxRetriesPlusOne(errorType) ==
  IF RECOVERY_STRATEGIES[errorType].maxRetries = 0 THEN 2
  ELSE RECOVERY_STRATEGIES[errorType].maxRetries + 1

\* strategy.maxRetries || 1
handleErrorMaxRetries(errorType) ==
  IF RECOVERY_STRATEGIES[errorType].maxRetries = 0 THEN 1
  ELSE RECOVERY_STRATEGIES[errorType].maxRetries

\* one turn of the for loop of handleError with its counter at attempt (h is
\* the history of p including what the calling step did): the
\* delay of an exponential_backoff policy is awaited, otherwise
\* retryCallback is invoked at once; after the loop the response for the
\* error that was handled is returned
handleErrorAttempt(p, attempt, h) ==
  LET errorType == classifyError(rawError)
      lc == [loc[p] EXCEPT !.attempt = attempt]
  IN  IF attempt > handleErrorMaxRetries(errorType)
        THEN /\ Return(p, createErrorResponse(rawError, <<>>))
             /\ SetHist(p, h)
      ELSE IF RECOVERY_STRATEGIES[errorType].action = "exponential_backoff"
        THEN /\ GotoWith(p, "he_delay", [lc EXCEPT !.delay = backoffDelay(attempt)])
             /\ SetHist(p, h)
      ELSE /\ GotoWith(p, "he_callback", lc)
           /\ SetHist(p, [h EXCEPT !.callbacks = Append(@, NoRv)])

\* handleError(error, retryCallback): the error is classified and its policy
\* looked up; without an auto-retry policy or without a callback the error
\* response is returned
HeStart(p) ==
  /\ pc[p] = "he_start"
  /\ LET errorType == classifyError(rawError)
     IN  IF /\ errorType \in StrategyKinds
            /\ RECOVERY_STRATEGIES[errorType].autoRetry
            /\ loc[p].retryCallback
           THEN handleErrorAttempt(p, 1, hist[p])
           ELSE /\ Return(p, createErrorResponse(rawError, <<>>))
                /\ UNCHANGED hist
  /\ UNCHANGED <<authVars, envVars, callVars>>

\* handleError: the backoff delay is over, retryCallback is invoked
HeDelay(p) ==
  /\ pc[p] = "he_delay"
  /\ Goto(p, "he_callback")
  /\ SetHist(p, [hist[p] EXCEPT
                   !.callbacks = Append(@, NoRv),
                   !.delays = Append(@, [kind |-> "handle", ms |-> loc[p].delay,
                                         attempt |-> loc[p].attempt, after |-> 0])])
  /\ UNCHANGED <<authVars, envVars, callVars>>

\* handleError: retryCallback settled.  Its value is returned as a success;
\* its error ends the call when the budget is used up and starts the next
\* turn of the loop otherwise
HeCallback(p) ==
  /\ pc[p] = "he_callback"
  /\ \E o \in RetryOutcomes :
       LET h == [hist[p] EXCEPT !.callbacks[Len(hist[p].callbacks)] = o]
       IN  IF o.kind = "ret"
             THEN /\ Return(p, [success |-> TRUE, result |-> o.val])
                  /\ SetHist(p, h)
           ELSE IF loc[p].attempt = handleErrorMaxRetries(classifyError(rawError))
             THEN /\ Return(p, createErrorResponse(o.val, [retriesExhausted |-> TRUE]))
                  /\ SetHist(p, h)
           ELSE handleErrorAttempt(p, loc[p].attempt + 1, h)
  /\ UNCHANGED <<authVars, envVars, callVars>>

(***************************************************************************)
(* Validator.validateEmailConfig and EmailService                          *)
(* (src/src/services/email.service.js).                                    *)
(***************************************************************************)
RECURSIVE join(_, _)
\* Array.prototype.join
join(items, sep) ==
  IF items = <<>> THEN ""
  ELSE IF Len(items) = 1 THEN items[1]
  ELSE items[1] \o sep \o join(Tail(items), sep)

(***************************************************************************)
(* GmailApiService._buildEmailMessage: the envelope of a message.  The     *)
(* envelope is text: header lines, body and parts joined with CRLF.        *)
(***************************************************************************)
CRLF == "\r\n"

\* what Math.random().toString(36).substr(2, 9) can give: up to nine
\* characters, one ("i" for 0.5) or none (for 0) among them
BoundarySuffixes == {"4fzyo82mv", "i", ""}

\* _generateBoundary, for a random suffix
generateBoundary(suffix) == "boundary_" \o suffix

\* a Content-Type header that declares text/html for a plain message
contentTypeHeaderHtml(hasAttachments, boundary) ==
  IF hasAttachments
    THEN "Content-Type: multipart/mixed; boundary=\"" \o boundary \o "\""
    ELSE "Content-Type: text/html; charset=UTF-8"

\* the Content-Type header of the envelope
contentTypeHeader(hasAttachments, boundary) ==
  IF hasAttachments
    THEN "Content-Type: multipart/mixed; boundary=\"" \o boundary \o "\""
    ELSE "Content-Type: text/plain; charset=UTF-8"

\* the lines of one attachment part
attachmentPart(attachment, boundary) ==
  << "--" \o boundary,
     "Content-Type: " \o (IF attachment.type # "" THEN attachment.type
                          ELSE "application/octet-stream"),
     "Content-Disposition: attachment; filename=\"" \o attachment.name \o "\"",
     "Content-Transfer-Encoding: base64",
     "",
     attachment.data,
     "" >>

RECURSIVE attachmentPartsReversed(_, _)
\* attachment parts written last attachment first
attachmentPartsReversed(attachments, boundary) ==
  IF attachments = <<>> THEN <<>>
  ELSE attachmentPartsReversed(Tail(attachments), boundary)
         \o attachmentPart(Head(attachments), boundary)

RECURSIVE attachmentParts(_, _)
\* attachments.forEach(...): the parts of the attachments, in their order
attachmentParts(attachments, boundary) ==
  IF attachments = <<>> THEN <<>>
  ELSE attachmentPart(Head(attachments), boundary)
         \o attachmentParts(Tail(attachments), boundary)

\* an envelope whose last part is not closed
buildEmailMessageUnclosed(emailData, attachments, boundary) ==
  LET hasAttachments == Len(attachments) > 0
      headers == << ToHeader(emailData), "Subject: " \o emailData.subject,
                    "MIME-Version: 1.0", contentTypeHeader(hasAttachments, boundary), "" >>
  IN  join(headers \o
           (IF hasAttachments
              THEN << "--" \o boundary, "Content-Type: text/plain; charset=UTF-8", "",
                      emailData.body, "" >>
                   \o attachmentParts(attachments, boundary)
              ELSE << emailData.body >>),
           CRLF)

\* _buildEmailMessage(emailData, attachments) with the boundary that
\* _generateBoundary gave to the call
buildEmailMessage(emailData, attachments, boundary) ==
  LET hasAttachments == Len(attachments) > 0
      headers == << ToHeader(emailData), "Subject: " \o emailData.subject,
                    "MIME-Version: 1.0", contentTypeHeader(hasAttachments, boundary), "" >>
  IN  join(headers \o
           (IF hasAttachments
              THEN << "--" \o boundary, "Content-Type: text/plain; charset=UTF-8", "",
                      emailData.body, "" >>
                   \o attachmentParts(attachments, boundary)
                   \o << "--" \o boundary \o "--" >>
              ELSE << emailData.body >>),
           CRLF)

\* no call of _buildEmailMessage
NoEnvelope ==
  [emailData |-> [to |-> "", subject |-> "", body |-> ""], attachments |-> <<>>,
   boundary |-> "", message |-> "", built |-> FALSE]

\* the emailData of a call: the body may have several lines, empty lines and
\* lines that look like the delimiter of some other message
EmailDatas ==
  [to : {"a@example.com"}, subject : {"Hi", "Re: report"},
   body : {"Hello", "", "line1" \o CRLF \o CRLF \o "--boundary_x" \o CRLF \o "line2"}]

\* attachments as _prepareAttachments and readFileAsBase64 make them; a type
\* may be missing when sendEmail is called directly
BuildAttachments ==
  { [name |-> "a.pdf", data |-> "SGVsbG8=", type |-> "application/pdf"],
    [name |-> "b.txt", data |-> "QQ==", type |-> ""],
    [name |-> "c.png", data |-> "a+b/c0==", type |-> "image/png"] }

\* attachment lists of a call: none, one or two attachments
AttachmentLists ==
  {<<>>} \cup {<<a>> : a \in BuildAttachments}
         \cup {<<a, b>> : a \in BuildAttachments, b \in BuildAttachments}

\* this._buildEmailMessage(emailData, attachments): the boundary is drawn,
\* then the envelope is written
BuildEmailMessage ==
  /\ ~envelope.built
  /\ envelope # NoEnvelope
  /\ \E suffix \in BoundarySuffixes :
       LET boundary == generateBoundary(suffix)
       IN  envelope' = [envelope EXCEPT
                          !.boundary = boundary,
                          !.message = buildEmailMessage(envelope.emailData,
                                                        envelope.attachments, boundary),
                          !.built = TRUE]
  /\ UNCHANGED <<authVars, envVars, op, recipient, rawError, endpoint, authStateListeners,
                 emailInput, sendButtonDisabled,
                 removedListeners,
                 pc, stack, rv, loc, result, hist>>

\* a validation that checks only that subject and body are filled in
validateEmailConfigNoLength(config) ==
  (IF config.subject = "" \/ trim(config.subject) = ""
     THEN <<"Email subject is required">> ELSE <<>>)
  \o (IF config.body = "" \/ trim(config.body) = ""
        THEN <<"Email body is required">> ELSE <<>>)

validateEmailConfig(config) ==
  IF ~config.present THEN <<"Configuration is required">>
  ELSE
    (IF config.subject = "" \/ trim(config.subject) = ""
       THEN <<"Email subject is required">> ELSE <<>>)
    \o (IF config.body = "" \/ trim(config.body) = ""
          THEN <<"Email body is required">> ELSE <<>>)
    \o (IF Len(config.subject) > MaxSubjectLength
          THEN <<"Email subject is too long (max 200 characters)">> ELSE <<>>)
    \o (IF Len(config.body) > MaxBodyLength
          THEN <<"Email body is too long (max 10,000 characters)">> ELSE <<>>)

\* _prepareAttachments(config): the attachments handed to the transport
prepareAttachments(config) ==
  IF config.attachmentData # NoData /\ config.attachmentName # ""
    THEN <<[name |-> config.attachmentName, data |-> config.attachmentData,
            type |-> IF config.attachmentType # "" THEN config.attachmentType
                     ELSE "application/octet-stream"]>>
    ELSE <<>>

\* a success result that leaves out the recipient
sendEmailWithAttachmentNoRecipient(sent, to) ==
  Ret([success |-> TRUE, message |-> "Email sent successfully!",
       messageId |-> sent.messageId, recipient |-> ""])

\* the result sendEmailWithAttachment returns when the transport succeeded
sendEmailWithAttachmentSuccess(sent, to) ==
  Ret([success |-> TRUE, message |-> "Email sent successfully!",
       messageId |-> sent.messageId, recipient |-> to])

\* a catch block that lets the error escape to the caller
sendEmailWithAttachmentRethrow(error, to) == Thrown(error)

\* the catch block of sendEmailWithAttachment: the outcome of the call
sendEmailWithAttachmentCatch(error, to) ==
  Ret(createErrorResponse(error, [recipient |-> to]))

\* the recipient check, which runs as soon as the service is initialized
ValidateRecipient(p) ==
  IF ~isValidEmail(recipient[p])
    THEN Complete(p, sendEmailWithAttachmentCatch(Error("Invalid recipient email address"),
                                                  recipient[p]))
    ELSE Goto(p, "swa_config")

\* sendEmailWithAttachment: entry
SwaStart(p) ==
  /\ pc[p] = "swa_start"
  /\ IF ~initialized
       THEN CallInitialize(p, "swa_initialized")
       ELSE ValidateRecipient(p)
  /\ UNCHANGED <<authVars, envVars, callVars, hist>>

\* EmailService.initialize: authService.initialize completed
SwaInitialized(p) ==
  /\ pc[p] = "swa_initialized"
  /\ initialized' = (IF rv[p].kind = "throw" THEN initialized ELSE TRUE)
  /\ ValidateRecipient(p)
  /\ SetHist(p, AuthForget(hist[p]))
  /\ UNCHANGED <<authVars, emailConfig, clientId, callVars>>

\* sendEmailWithAttachment: StorageService.getEmailConfig completed; a valid
\* configuration is handed to the transport
SwaConfig(p) ==
  /\ pc[p] = "swa_config"
  /\ \/ /\ Complete(p, sendEmailWithAttachmentCatch(
                         Error("Failed to retrieve email configuration"), recipient[p]))
        /\ UNCHANGED hist
     \/ /\ ~emailConfig.present
        /\ Complete(p, sendEmailWithAttachmentCatch(
                         Error("No email configuration found. Please configure your email template first."),
                         recipient[p]))
        /\ UNCHANGED hist
     \/ /\ emailConfig.present
        /\ validateEmailConfig(emailConfig) # <<>>
        /\ Complete(p, sendEmailWithAttachmentCatch(
                         Error("Invalid email configuration: "
                               \o join(validateEmailConfig(emailConfig), ", ")),
                         recipient[p]))
        /\ UNCHANGED hist
     \/ /\ emailConfig.present
        /\ validateEmailConfig(emailConfig) = <<>>
        /\ sendEmail(p, "swa_sent", loc[p])
        /\ SetHist(p, [hist[p] EXCEPT !.transportCalls = @ + 1,
                                      !.attachments = prepareAttachments(emailConfig)])
  /\ UNCHANGED <<authVars, envVars, callVars>>

\* sendEmailWithAttachment: gmailApiService.sendEmail completed
SwaSent(p) ==
  /\ pc[p] = "swa_sent"
  /\ SetHist(p, [hist[p] EXCEPT !.transportResult = rv[p]])
  /\ IF rv[p].kind = "throw"
       THEN Complete(p, sendEmailWithAttachmentCatch(rv[p].val, recipient[p]))
     ELSE IF rv[p].val.success
       THEN Complete(p, sendEmailWithAttachmentSuccess(rv[p].val, recipient[p]))
     ELSE Complete(p, sendEmailWithAttachmentCatch(
                        Error(IF rv[p].val.message # "" THEN rv[p].val.message
                              ELSE "Failed to send email"),
                        recipient[p]))
  /\ UNCHANGED <<authVars, envVars, callVars>>

(***************************************************************************)
(* PopupController (src/src/popup/popup.js): the send button, the Enter    *)
(* key of the address field and the handlers they start.  Process p        *)
(* carries one run of _handleSendEmail at a time, from the event to its    *)
(* last line.  The popup sees emailService through the promises it awaits: *)
(* a call is in progress from the step that issues it to the step that     *)
(* takes its outcome, and while one is in progress the service may notify  *)
(* its auth-state listeners.                                               *)
(***************************************************************************)
\* what the user types into the address field
EmailInputs == {"", "bad-address", " a@b.c"}

\* an input event: the field holds what the user typed (_validateEmailInput
\* only colours its border)
Input ==
  /\ \E v \in EmailInputs : emailInput' = v
  /\ UNCHANGED <<authVars, envVars, op, recipient, rawError, endpoint, envelope,
                 authStateListeners, removedListeners, sendButtonDisabled,
                 pc, stack, rv, loc, result, hist>>

\* _handleSendEmail up to its first await: the trimmed address is checked
\* and emailService.getAuthStatus is called.  The outcome of a run is the
\* type of the last toast it showed.
handleSendEmail(p) ==
  LET email == trim(emailInput)
  IN  /\ op' = [op EXCEPT ![p] = "_handleSendEmail"]
      /\ recipient' = [recipient EXCEPT ![p] = email]
      /\ IF email = "" \/ ~isValidEmail(email)
           THEN SetCtl(p, "done", <<>>, NoRv, NoLoc, Ret("error"))
           ELSE SetCtl(p, "hse_status", <<>>, NoRv, NoLoc, NoRv)
      /\ UNCHANGED <<authVars, envVars, rawError, endpoint, envelope, authStateListeners,
                     removedListeners, emailInput, sendButtonDisabled, hist>>

\* a click on the send button: a disabled button dispatches no click event
Click(p) ==
  /\ pc[p] \in {"idle", "done"}
  /\ ~sendButtonDisabled
  /\ handleSendEmail(p)

\* a keypress of Enter in the address field
KeypressEnter(p) ==
  /\ pc[p] \in {"idle", "done"}
  /\ handleSendEmail(p)

\* _handleSendEmail: getAuthStatus answered (it never throws).  Without a
\* session _handleAuthentication starts, with one _sendEmail; both disable
\* the button and call the service.
HseStatus(p) ==
  /\ pc[p] = "hse_status"
  /\ \E isAuthenticated \in BOOLEAN :
       Goto(p, IF isAuthenticated THEN "pse_sending" ELSE "ha_authenticating")
  /\ sendButtonDisabled' = TRUE
  /\ UNCHANGED <<authVars, envVars, op, recipient, rawError, endpoint, envelope,
                 authStateListeners, removedListeners, emailInput, hist>>

\* _handleAuthentication: emailService.authenticate(true) completed with a
\* success or an error response; the finally block enables the button
HaDone(p) ==
  /\ pc[p] = "ha_authenticating"
  /\ \E success \in BOOLEAN : Complete(p, Ret(IF success THEN "success" ELSE "error"))
  /\ sendButtonDisabled' = FALSE
  /\ UNCHANGED <<authVars, envVars, op, recipient, rawError, endpoint, envelope,
                 authStateListeners, removedListeners, emailInput, hist>>

\* _sendEmail: emailService.sendEmailWithAttachment completed with a
\* success or an error response; a success empties the address field, and
\* the finally block enables the button
PseSent(p) ==
  /\ pc[p] = "pse_sending"
  /\ \E success \in BOOLEAN :
       /\ emailInput' = (IF success THEN "" ELSE emailInput)
       /\ Complete(p, Ret(IF success THEN "success" ELSE "error"))
  /\ sendButtonDisabled' = FALSE
  /\ UNCHANGED <<authVars, envVars, op, recipient, rawError, endpoint, envelope,
                 authStateListeners, removedListeners, hist>>

\* the listener subscribed by _attachEventListeners, invoked by the service
\* during a call of authenticate or sendEmailWithAttachment:
\* _updateAuthStatus(isAuthenticated) enables the button in both branches
UpdateAuthStatus ==
  /\ \E p \in Procs : pc[p] \in {"ha_authenticating", "pse_sending"}
  /\ sendButtonDisabled' = FALSE
  /\ UNCHANGED <<authVars, envVars, op, recipient, rawError, endpoint, envelope,
                 authStateListeners, removedListeners, emailInput,
                 pc, stack, rv, loc, result, hist>>

(***************************************************************************)
(* The configuration store: Validator.validateAttachment, FileHandler,     *)
(* StorageService and the settings page (src/unnamed/part_005,             *)
(* src/utils/file-handler.js, src/unnamed/part_007).                       *)
(***************************************************************************)
\* const maxSize = 1024 * 1024 of validateAttachment
maxSize == 1024 * 1024
allowedTypes == {".pdf", ".doc", ".docx", ".txt"}
MaxFileNameLength == 100

UpperCase == "ABCDEFGHIJKLMNOPQRSTUVWXYZ"
LowerCase == "abcdefghijklmnopqrstuvwxyz"
RECURSIVE toLowerCase(_)
\* String.prototype.toLowerCase
toLowerCase(str) ==
  IF str = "" THEN ""
  ELSE LET c == CharAt(str, 1)
           up == {i \in 1..Len(UpperCase) : CharAt(UpperCase, i) = c}
       IN  (IF up = {} THEN c ELSE CharAt(LowerCase, CHOOSE i \in up : TRUE))
           \o toLowerCase(SubSeq(str, 2, Len(str)))

\* name.split('.').pop(): what follows the last dot, the whole name without one
lastSegment(name) ==
  LET dots == {i \in 1..Len(name) : CharAt(name, i) = "."}
  IN  IF dots = {} THEN name
      ELSE SubSeq(name, (CHOOSE i \in dots : \A j \in dots : i >= j) + 1, Len(name))

\* Validator.validateAttachment(file) for a selected file
validateAttachment(file) ==
  (IF file.size > maxSize THEN <<"File size exceeds limit (1MB)">> ELSE <<>>)
  \o (IF ("." \o toLowerCase(lastSegment(file.name))) \notin allowedTypes
        THEN <<"File type is not allowed">> ELSE <<>>)
  \o (IF Len(file.name) > MaxFileNameLength
        THEN <<"File name is too long (max 100 characters)">> ELSE <<>>)

InvalidNameChars == {"<", ">", ":", "\"", "/", "\\", "|", "?", "*"}
RECURSIVE replaceInvalid(_)
\* the first two replacements of sanitizeFileName, character by character
replaceInvalid(str) ==
  IF str = "" THEN ""
  ELSE (IF CharAt(str, 1) \in InvalidNameChars \/ IsWhitespace(CharAt(str, 1))
          THEN "_" ELSE CharAt(str, 1))
       \o replaceInvalid(SubSeq(str, 2, Len(str)))
RECURSIVE collapseUnderscores(_)
\* .replace(/_{2,}/g, '_')
collapseUnderscores(str) ==
  IF Len(str) < 2 THEN str
  ELSE IF CharAt(str, 1) = "_" /\ CharAt(str, 2) = "_"
    THEN collapseUnderscores(SubSeq(str, 2, Len(str)))
  ELSE CharAt(str, 1) \o collapseUnderscores(SubSeq(str, 2, Len(str)))
\* Validator.sanitizeFileName
sanitizeFileName(fileName) ==
  IF fileName = "" THEN "attachment"
  ELSE trim(collapseUnderscores(replaceInvalid(fileName)))

\* FileHandler.getFileMimeType for a selected file
getFileMimeType(file) ==
  IF file.type # "" THEN file.type
  ELSE LET extension == toLowerCase(lastSegment(file.name))
       IN  CASE extension = "pdf" -> "application/pdf"
             [] extension = "doc" -> "application/msword"
             [] extension = "docx" ->
                  "application/vnd.openxmlformats-officedocument.wordprocessingml.document"
             [] extension = "txt" -> "text/plain"
             [] extension \in {"jpg", "jpeg"} -> "image/jpeg"
             [] extension = "png" -> "image/png"
             [] extension = "gif" -> "image/gif"
             [] OTHER -> "application/octet-stream"

\* FileHandler.readFileAsBase64: the base64 text of a file of size bytes has
\* four characters for every three bytes, padded with '='
readFileAsBase64(file) ==
  [chars |-> 4 * ((file.size + 2) \div 3), pad |-> (3 - (file.size % 3)) % 3]

\* the number of bytes a base64 string decodes to (atob)
decodedSize(data) == (data.chars \div 4) * 3 - data.pad

\* SettingsController._processFile: the attachment of a file that passed
\* FileHandler.validateFile
processFile(file) ==
  [name |-> sanitizeFileName(file.name), data |-> readFileAsBase64(file),
   type |-> getFileMimeType(file)]

\* StorageService.validateConfig
validateConfig(config) ==
  IF ~config.present THEN <<"Configuration must be an object">>
  ELSE
    (IF trim(config.subject) = "" THEN <<"Subject is required">> ELSE <<>>)
    \o (IF trim(config.body) = "" THEN <<"Body is required">> ELSE <<>>)
    \o (IF config.attachmentData # NoData /\ config.attachmentName = ""
          THEN <<"Attachment name is required when attachment data is provided">> ELSE <<>>)
    \o (IF config.attachmentData # NoData /\ config.attachmentType = ""
          THEN <<"Attachment type is required when attachment data is provided">> ELSE <<>>)

\* the configuration with the members of attachment a
WithAttachment(config, a) ==
  [config EXCEPT !.attachmentName = a.name, !.attachmentData = a.data,
                 !.attachmentType = a.type, !.present = TRUE]

\* files the user can select on the settings page; type "" is a file the
\* browser reports no MIME type for
NoFile == [name |-> "", size |-> 0, type |-> "", selected |-> FALSE]
Files ==
  { NoFile,
    [name |-> "cv.pdf", size |-> 5, type |-> "application/pdf", selected |-> TRUE],
    [name |-> "My CV.TXT", size |-> maxSize, type |-> "", selected |-> TRUE],
    [name |-> "big.pdf", size |-> maxSize + 1, type |-> "application/pdf", selected |-> TRUE],
    [name |-> "tool.exe", size |-> 7, type |-> "", selected |-> TRUE] }

\* what the subject and body fields of the settings form hold
Forms == {[subject |-> "Hi", body |-> "Hello"], [subject |-> "Hi ", body |-> " "]}

\* attachment objects and configuration objects given to saveAttachment,
\* saveEmailConfig and importConfig: base64 data decoding to 6 bytes, to
\* exactly 1 MiB and to one byte more; a subject of 201 characters
DataValues ==
  { [chars |-> 8, pad |-> 0],
    [chars |-> 4 * ((maxSize + 2) \div 3), pad |-> 2],
    [chars |-> 4 * ((maxSize + 2) \div 3), pad |-> 1] }
AttachmentObjects ==
  {[name |-> "cv.pdf", data |-> d, type |-> "application/pdf"] : d \in DataValues}
ConfigObjects ==
  {NoConfig, TextConfig("Hi", "Hello"), TextConfig("Hi", ""),
   TextConfig("s" \o Repeat(" ", MaxSubjectLength - 1) \o "s", "Hello")}
  \cup {WithAttachment(TextConfig("Hi", "Hello"), a) : a \in AttachmentObjects}
  \cup {[TextConfig("Hi", "Hello") EXCEPT !.attachmentData = [chars |-> 8, pad |-> 0]]}

\* the store operations run while no send is in progress
StoreIdle == \A p \in Procs : pc[p] \in {"idle", "swa_start"}

\* StorageService.saveEmailConfig(config): the stored configuration after
\* the call, ok telling whether chrome.storage.local.set succeeds
saveEmailConfig(config, ok) ==
  IF validateConfig(config) = <<>> /\ ok THEN config ELSE emailConfig

\* everything the store operations leave alone
storeUnchanged ==
  UNCHANGED <<authVars, initialized, clientId, callVars, pc, stack, rv, loc, result, hist>>

\* the settings page: Save is clicked with the form filled in and a file
\* selected or not; currentConfig is the configuration the page loaded
HandleSave ==
  /\ StoreIdle
  /\ \E form \in Forms, file \in Files, ok \in BOOLEAN :
       LET subject == trim(form.subject)
           body == trim(form.body)
           formValid == subject # "" /\ body # "" /\ Len(subject) <= MaxSubjectLength
                          /\ Len(body) <= MaxBodyLength
           currentConfig == emailConfig
           config ==
             IF file.selected THEN WithAttachment(TextConfig(subject, body), processFile(file))
             ELSE IF currentConfig.attachmentData # NoData
               THEN WithAttachment(TextConfig(subject, body),
                                   [name |-> currentConfig.attachmentName,
                                    data |-> currentConfig.attachmentData,
                                    type |-> currentConfig.attachmentType])
             ELSE TextConfig(subject, body)
       IN  emailConfig' =
             IF ~formValid THEN emailConfig
             ELSE IF file.selected /\ validateAttachment(file) # <<>> THEN emailConfig
             ELSE IF validateEmailConfig(config) # <<>> THEN emailConfig
             ELSE saveEmailConfig(config, ok)
  /\ storeUnchanged

\* StorageService.saveEmailConfig called with a configuration object
SaveEmailConfig ==
  /\ StoreIdle
  /\ \E config \in ConfigObjects, ok \in BOOLEAN : emailConfig' = saveEmailConfig(config, ok)
  /\ storeUnchanged

\* StorageService.saveAttachment(attachmentData)
SaveAttachment ==
  /\ StoreIdle
  /\ \E a \in AttachmentObjects, ok \in BOOLEAN :
       emailConfig' = saveEmailConfig(WithAttachment(emailConfig, a), ok)
  /\ storeUnchanged

\* StorageService.importConfig(configData), as called by the settings page
\* with the parsed JSON of an imported file
ImportConfig ==
  /\ StoreIdle
  /\ \E configData \in ConfigObjects, ok \in BOOLEAN :
       emailConfig' = IF configData.present /\ validateConfig(configData) = <<>>
                        THEN saveEmailConfig(configData, ok)
                        ELSE emailConfig
  /\ storeUnchanged

\* StorageService.clearAttachment
ClearAttachment ==
  /\ StoreIdle
  /\ \E ok \in BOOLEAN :
       emailConfig' =
         IF ~emailConfig.present THEN emailConfig
         ELSE saveEmailConfig([emailConfig EXCEPT !.attachmentName = "",
                                                  !.attachmentData = NoData,
                                                  !.attachmentType = ""], ok)
  /\ storeUnchanged

StoreStep ==
  HandleSave \/ SaveEmailConfig \/ SaveAttachment \/ ImportConfig \/ ClearAttachment

(***************************************************************************)
(* Specifications.                                                         *)
(***************************************************************************)
AuthStep(p) ==
  \/ GvtStart(p) \/ GvtCurrent(p) \/ GvtStorage(p) \/ GvtStored(p) \/ GvtAuth(p)
  \/ AuStart(p) \/ AuIdp(p) \/ AuSave(p)

RefreshStep(p) ==
  \/ CtStart(p) \/ CtRemove(p) \/ CtClear(p)
  \/ RtCleared(p) \/ RtSilent(p) \/ RtInteractive(p)

TransportStep(p) ==
  \/ SeToken(p) \/ SePost(p) \/ HaeRefreshed(p) \/ HaeResent(p)
  \/ RlSleep(p) \/ RbSleep(p) \/ RbSent(p)

PipelineStep(p) ==
  \/ AiStart(p) \/ AiValidate(p) \/ AiClear(p)
  \/ SwaStart(p) \/ SwaInitialized(p) \/ SwaConfig(p) \/ SwaSent(p)

\* the states a service can be in between calls: not yet initialized (as
\* constructed), or initialized with the in-memory token absent or adopted
\* from storage
InitService ==
  /\ storedToken \in {NoToken, OldToken}
  /\ initialized \in BOOLEAN
  /\ currentToken \in (IF initialized THEN {NoToken, storedToken} ELSE {NoToken})
  /\ idpCache = storedToken
  /\ emailConfig \in Configs
  /\ clientId \in ClientIds
  /\ authStateListeners = PopupListeners
  /\ rawError = NoRawError
  /\ endpoint = Responses
  /\ envelope = NoEnvelope
  /\ removedListeners = {}
  /\ emailInput = ""
  /\ sendButtonDisabled = FALSE
  /\ stack = [p \in Procs |-> <<>>]
  /\ rv = [p \in Procs |-> NoRv]
  /\ loc = [p \in Procs |-> NoLoc]
  /\ result = [p \in Procs |-> NoRv]
  /\ hist = [p \in Procs |-> NoHist]

\* Spec: one call of sendEmailWithAttachment by p1
Init ==
  /\ InitService
  /\ op = [p \in Procs |-> IF p = "p1" THEN "sendEmailWithAttachment" ELSE "none"]
  /\ recipient \in [Procs -> Recipients]
  /\ recipient["p2"] = "a@b.c"
  /\ pc = [p \in Procs |-> IF p = "p1" THEN "swa_start" ELSE "idle"]

Next == \E p \in Procs : AuthStep(p) \/ RefreshStep(p) \/ TransportStep(p) \/ PipelineStep(p)

Spec == Init /\ [][Next]_vars

\* SpecSend: one call of GmailApiService.sendEmail by p1, which starts by
\* awaiting getValidToken
InitSend ==
  /\ storedToken \in {NoToken, OldToken}
  /\ initialized = TRUE
  /\ currentToken \in {NoToken, storedToken}
  /\ idpCache = storedToken
  /\ emailConfig \in {c \in Configs : c.present /\ validateEmailConfig(c) = <<>>}
  /\ clientId \in ClientIds
  /\ op = [p \in Procs |-> IF p = "p1" THEN "sendEmail" ELSE "none"]
  /\ recipient = [p \in Procs |-> "a@b.c"]
  /\ authStateListeners = PopupListeners
  /\ rawError = NoRawError
  /\ endpoint = Responses
  /\ envelope = NoEnvelope
  /\ removedListeners = {}
  /\ emailInput = ""
  /\ sendButtonDisabled = FALSE
  /\ pc = [p \in Procs |-> IF p = "p1" THEN "gvt_start" ELSE "idle"]
  /\ stack = [p \in Procs |->
                IF p = "p1" THEN <<[pc |-> "se_token", loc |-> NoLoc]>> ELSE <<>>]
  /\ rv = [p \in Procs |-> NoRv]
  /\ loc = [p \in Procs |-> NoLoc]
  /\ result = [p \in Procs |-> NoRv]
  /\ hist = [p \in Procs |-> NoHist]

NextSend == \E p \in Procs : AuthStep(p) \/ RefreshStep(p) \/ TransportStep(p)

SpecSend == InitSend /\ [][NextSend]_vars

\* SpecStore: the configuration store is changed by any sequence of store
\* operations, then p1 calls sendEmailWithAttachment; the endpoint accepts
\* the mail or answers 500
StoreResponses == {r \in Responses : r.status = 500 \/ r.id = "m1"}

InitStore ==
  /\ storedToken = OldToken
  /\ initialized = TRUE
  /\ currentToken = OldToken
  /\ idpCache = OldToken
  /\ emailConfig = NoConfig
  /\ clientId = "client-id"
  /\ op = [p \in Procs |-> IF p = "p1" THEN "sendEmailWithAttachment" ELSE "none"]
  /\ recipient = [p \in Procs |-> "a@b.c"]
  /\ authStateListeners = PopupListeners
  /\ rawError = NoRawError
  /\ endpoint = StoreResponses
  /\ envelope = NoEnvelope
  /\ removedListeners = {}
  /\ emailInput = ""
  /\ sendButtonDisabled = FALSE
  /\ pc = [p \in Procs |-> IF p = "p1" THEN "swa_start" ELSE "idle"]
  /\ stack = [p \in Procs |-> <<>>]
  /\ rv = [p \in Procs |-> NoRv]
  /\ loc = [p \in Procs |-> NoLoc]
  /\ result = [p \in Procs |-> NoRv]
  /\ hist = [p \in Procs |-> NoHist]

NextStore ==
  \/ StoreStep
  \/ \E p \in Procs :
       \/ AuthStep(p) \/ SeToken(p) \/ SePost(p)
       \/ SwaStart(p) \/ SwaConfig(p) \/ SwaSent(p)

SpecStore == InitStore /\ [][NextStore]_vars

\* SpecRate: one call of GmailApiService.sendEmail by p1 to an endpoint that
\* limits the request rate
InitRate ==
  /\ storedToken \in {NoToken, OldToken}
  /\ initialized = TRUE
  /\ currentToken \in {NoToken, storedToken}
  /\ idpCache = storedToken
  /\ emailConfig \in {c \in Configs : c.present /\ validateEmailConfig(c) = <<>>}
  /\ clientId \in ClientIds
  /\ op = [p \in Procs |-> IF p = "p1" THEN "sendEmail" ELSE "none"]
  /\ recipient = [p \in Procs |-> "a@b.c"]
  /\ authStateListeners = PopupListeners
  /\ rawError = NoRawError
  /\ endpoint = RateResponses
  /\ envelope = NoEnvelope
  /\ removedListeners = {}
  /\ emailInput = ""
  /\ sendButtonDisabled = FALSE
  /\ pc = [p \in Procs |-> IF p = "p1" THEN "gvt_start" ELSE "idle"]
  /\ stack = [p \in Procs |->
                IF p = "p1" THEN <<[pc |-> "se_token", loc |-> NoLoc]>> ELSE <<>>]
  /\ rv = [p \in Procs |-> NoRv]
  /\ loc = [p \in Procs |-> NoLoc]
  /\ result = [p \in Procs |-> NoRv]
  /\ hist = [p \in Procs |-> NoHist]

NextRate ==
  \E p \in Procs :
    \/ AuthStep(p)
    \/ SeToken(p) \/ SePost(p) \/ RlSleep(p) \/ RbSleep(p) \/ RbSent(p)

SpecRate == InitRate /\ [][NextRate]_vars

\* SpecTokens: p1 and p2 call AuthService.getValidToken on one service at
\* the same time
InitTokens ==
  /\ storedToken \in {NoToken, OldToken}
  /\ initialized = TRUE
  /\ currentToken \in {NoToken, storedToken}
  /\ idpCache = storedToken
  /\ emailConfig = NoConfig
  /\ clientId \in ClientIds
  /\ op = [p \in Procs |-> "getValidToken"]
  /\ recipient = [p \in Procs |-> "a@b.c"]
  /\ authStateListeners = PopupListeners
  /\ rawError = NoRawError
  /\ endpoint = Responses
  /\ envelope = NoEnvelope
  /\ removedListeners = {}
  /\ emailInput = ""
  /\ sendButtonDisabled = FALSE
  /\ pc = [p \in Procs |-> "gvt_start"]
  /\ stack = [p \in Procs |-> <<>>]
  /\ rv = [p \in Procs |-> NoRv]
  /\ loc = [p \in Procs |-> NoLoc]
  /\ result = [p \in Procs |-> NoRv]
  /\ hist = [p \in Procs |-> NoHist]

NextTokens == \E p \in Procs : AuthStep(p)

SpecTokens == InitTokens /\ [][NextTokens]_vars

\* SpecAuth: p1, and possibly p2 at the same time, call one operation of
\* AuthService each
AuthOps == {"authenticate", "clearTokens", "refreshToken", "getValidToken", "initialize"}
ListenerLists == {<<>>, <<"l1">>, <<"l1", "l2">>}

\* the first statement of operation o, the callers awaiting it and its locals
EntryPc(o) ==
  CASE o = "authenticate" -> "au_start"
    [] o = "clearTokens" -> "ct_start"
    [] o = "refreshToken" -> "ct_start"
    [] o = "getValidToken" -> "gvt_start"
    [] o = "initialize" -> "ai_start"
    [] o = "sendEmail" -> "gvt_start"
    [] OTHER -> "idle"
EntryStack(o) ==
  CASE o = "refreshToken" -> <<[pc |-> "rt_cleared", loc |-> NoLoc]>>
    [] o = "sendEmail" -> <<[pc |-> "se_token", loc |-> NoLoc]>>
    [] OTHER -> <<>>

InitAuth ==
  /\ storedToken \in {NoToken, OldToken}
  /\ initialized = TRUE
  /\ currentToken \in {NoToken, storedToken}
  /\ idpCache = storedToken
  /\ emailConfig = NoConfig
  /\ clientId \in ClientIds
  /\ op \in [Procs -> AuthOps \cup {"none"}]
  /\ op["p1"] # "none"
  /\ recipient = [p \in Procs |-> "a@b.c"]
  /\ authStateListeners \in ListenerLists
  /\ rawError = NoRawError
  /\ endpoint = Responses
  /\ envelope = NoEnvelope
  /\ removedListeners = {}
  /\ emailInput = ""
  /\ sendButtonDisabled = FALSE
  /\ pc = [p \in Procs |-> EntryPc(op[p])]
  /\ stack = [p \in Procs |-> EntryStack(op[p])]
  /\ rv = [p \in Procs |-> NoRv]
  /\ loc \in [Procs -> {[NoLoc EXCEPT !.interactive = i, !.tok = t] :
                           i \in BOOLEAN, t \in {NoToken, storedToken}}]
  /\ \A p \in Procs : /\ loc[p].interactive => op[p] = "authenticate"
                       /\ loc[p].tok = (IF op[p] = "initialize" THEN storedToken ELSE NoToken)
  /\ result = [p \in Procs |-> NoRv]
  /\ hist = [p \in Procs |-> NoHist]

NextAuth ==
  \E p \in Procs :
    AuthStep(p) \/ RefreshStep(p) \/ AiStart(p) \/ AiValidate(p) \/ AiClear(p)

SpecAuth == InitAuth /\ [][NextAuth]_vars

\* SpecListeners: callers subscribe and unsubscribe callbacks at any time
\* while p1 runs one operation of an AuthService that was constructed with
\* no listener
InitListeners ==
  /\ storedToken \in {NoToken, OldToken}
  /\ initialized = TRUE
  /\ currentToken \in {NoToken, storedToken}
  /\ idpCache = storedToken
  /\ emailConfig = NoConfig
  /\ clientId = "client-id"
  /\ \E o \in AuthOps :
       /\ op = [p \in Procs |-> IF p = "p1" THEN o ELSE "none"]
       /\ loc = [p \in Procs |->
                   [NoLoc EXCEPT !.tok = IF op[p] = "initialize" THEN storedToken ELSE NoToken]]
  /\ recipient = [p \in Procs |-> "a@b.c"]
  /\ authStateListeners = <<>>
  /\ rawError = NoRawError
  /\ endpoint = Responses
  /\ envelope = NoEnvelope
  /\ removedListeners = {}
  /\ emailInput = ""
  /\ sendButtonDisabled = FALSE
  /\ pc = [p \in Procs |-> EntryPc(op[p])]
  /\ stack = [p \in Procs |-> EntryStack(op[p])]
  /\ rv = [p \in Procs |-> NoRv]
  /\ result = [p \in Procs |-> NoRv]
  /\ hist = [p \in Procs |-> NoHist]

NextListeners ==
  \/ \E callback \in Listeners \cup {"not a function"} : OnAuthStateChanged(callback)
  \/ \E callback \in Listeners : RemoveAuthStateListener(callback)
  \/ \E p \in Procs :
       AuthStep(p) \/ RefreshStep(p) \/ AiStart(p) \/ AiValidate(p) \/ AiClear(p)

SpecListeners == InitListeners /\ [][NextListeners]_vars

\* the answer of the mail endpoint to a POST with a token that has expired
ExpiredAnswer ==
  [ok |-> FALSE, status |-> 401, message |-> "Access token expired", id |-> "",
   retryAfterHeader |-> "", bodyRetryAfter |-> ""]

\* SpecRace: p1 and p2 called GmailApiService.sendEmail at the same time on
\* one AuthService, getValidToken handed both the token of the earlier
\* session, both POSTs were answered "token expired", and each send is
\* about to run handleAuthError -> refreshToken -> clearTokens
InitRace ==
  /\ storedToken = OldToken
  /\ initialized = TRUE
  /\ currentToken = OldToken
  /\ idpCache = OldToken
  /\ emailConfig \in {c \in Configs : c.present /\ validateEmailConfig(c) = <<>>}
  /\ clientId = "client-id"
  /\ op = [p \in Procs |-> "sendEmail"]
  /\ recipient = [p \in Procs |-> "a@b.c"]
  /\ authStateListeners = PopupListeners
  /\ rawError = NoRawError
  /\ endpoint = Responses
  /\ envelope = NoEnvelope
  /\ removedListeners = {}
  /\ emailInput = ""
  /\ sendButtonDisabled = FALSE
  /\ pc = [p \in Procs |-> "ct_start"]
  /\ stack = [p \in Procs |-> <<[pc |-> "hae_refreshed", loc |-> [NoLoc EXCEPT !.tok = OldToken]],
                                [pc |-> "rt_cleared", loc |-> NoLoc]>>]
  /\ rv = [p \in Procs |-> NoRv]
  /\ loc = [p \in Procs |-> NoLoc]
  /\ result = [p \in Procs |-> NoRv]
  /\ hist = [p \in Procs |->
               [NoHist EXCEPT !.posts = 1, !.postLog = <<ExpiredAnswer>>,
                              !.postTokens = <<OldToken>>,
                              !.net = {"introspect", "post"},
                              !.toHeaders = {ToHeader([to |-> recipient[p]])},
                              !.refreshCalls = 1]]

\* the refresh paths and the token request of the send that follows
NextRace ==
  \E p \in Procs :
    AuthStep(p) \/ RefreshStep(p) \/ HaeRefreshed(p) \/ SeToken(p) \/ HaeResent(p)

SpecRace == InitRace /\ [][NextRace]_vars

\* ErrorHandler.classifyError(rawError) called by p
ClassifyError(p) ==
  /\ pc[p] = "ce_start"
  /\ Return(p, classifyRawError(rawError))
  /\ UNCHANGED <<authVars, envVars, callVars, hist>>

\* SpecClassify: one call of ErrorHandler.classifyError by p1 with any raw error
InitClassify ==
  /\ storedToken = NoToken
  /\ initialized = FALSE
  /\ currentToken = NoToken
  /\ idpCache = NoToken
  /\ emailConfig = NoConfig
  /\ clientId = "client-id"
  /\ op = [p \in Procs |-> IF p = "p1" THEN "classifyError" ELSE "none"]
  /\ recipient = [p \in Procs |-> "a@b.c"]
  /\ authStateListeners = <<>>
  /\ rawError \in RawErrors
  /\ endpoint = Responses
  /\ envelope = NoEnvelope
  /\ removedListeners = {}
  /\ emailInput = ""
  /\ sendButtonDisabled = FALSE
  /\ pc = [p \in Procs |-> IF p = "p1" THEN "ce_start" ELSE "idle"]
  /\ stack = [p \in Procs |-> <<>>]
  /\ rv = [p \in Procs |-> NoRv]
  /\ loc = [p \in Procs |-> NoLoc]
  /\ result = [p \in Procs |-> NoRv]
  /\ hist = [p \in Procs |-> NoHist]

NextClassify == \E p \in Procs : ClassifyError(p)

SpecClassify == InitClassify /\ [][NextClassify]_vars

\* errors handed to ErrorHandler.handleError: one of each kind with a
\* recovery policy, and kinds without one
HandledErrors ==
  { Error("access token expired"), HttpError("Rate Limit Exceeded", 429),
    Error("rate limit exceeded"), Error("Failed to fetch"), Error("network down"),
    Error("file too large"), Error("permission denied"), HttpError("Backend Error", 500),
    Error("something else") }

\* SpecHandle: one call of ErrorHandler.handleError by p1 with any error,
\* with or without a retryCallback
InitHandle ==
  /\ storedToken = NoToken
  /\ initialized = FALSE
  /\ currentToken = NoToken
  /\ idpCache = NoToken
  /\ emailConfig = NoConfig
  /\ clientId = "client-id"
  /\ op = [p \in Procs |-> IF p = "p1" THEN "handleError" ELSE "none"]
  /\ recipient = [p \in Procs |-> "a@b.c"]
  /\ authStateListeners = <<>>
  /\ rawError \in HandledErrors
  /\ endpoint = Responses
  /\ envelope = NoEnvelope
  /\ removedListeners = {}
  /\ emailInput = ""
  /\ sendButtonDisabled = FALSE
  /\ pc = [p \in Procs |-> IF p = "p1" THEN "he_start" ELSE "idle"]
  /\ stack = [p \in Procs |-> <<>>]
  /\ rv = [p \in Procs |-> NoRv]
  /\ \E retryCallback \in BOOLEAN :
       loc = [p \in Procs |-> [NoLoc EXCEPT !.retryCallback = retryCallback /\ p = "p1"]]
  /\ result = [p \in Procs |-> NoRv]
  /\ hist = [p \in Procs |-> NoHist]

NextHandle == \E p \in Procs : HeStart(p) \/ HeDelay(p) \/ HeCallback(p)

SpecHandle == InitHandle /\ [][NextHandle]_vars

\* SpecBuild: one call of GmailApiService._buildEmailMessage with any
\* emailData and attachment list
InitBuild ==
  /\ storedToken = NoToken
  /\ initialized = FALSE
  /\ currentToken = NoToken
  /\ idpCache = NoToken
  /\ emailConfig = NoConfig
  /\ clientId = "client-id"
  /\ op = [p \in Procs |-> "none"]
  /\ recipient = [p \in Procs |-> "a@b.c"]
  /\ authStateListeners = <<>>
  /\ rawError = NoRawError
  /\ endpoint = Responses
  /\ \E emailData \in EmailDatas, attachments \in AttachmentLists :
       envelope = [NoEnvelope EXCEPT !.emailData = emailData, !.attachments = attachments]
  /\ removedListeners = {}
  /\ emailInput = ""
  /\ sendButtonDisabled = FALSE
  /\ pc = [p \in Procs |-> "idle"]
  /\ stack = [p \in Procs |-> <<>>]
  /\ rv = [p \in Procs |-> NoRv]
  /\ loc = [p \in Procs |-> NoLoc]
  /\ result = [p \in Procs |-> NoRv]
  /\ hist = [p \in Procs |-> NoHist]

NextBuild == BuildEmailMessage

SpecBuild == InitBuild /\ [][NextBuild]_vars

\* SpecPopup: the popup after init has attached the handlers and enabled
\* the send button; clicks, Enter keypresses and input events arrive in any
\* order, and at most two runs of _handleSendEmail overlap
InitPopup ==
  /\ storedToken = OldToken
  /\ initialized = TRUE
  /\ currentToken = OldToken
  /\ idpCache = OldToken
  /\ emailConfig = TextConfig("Hi", "Hello")
  /\ clientId = "client-id"
  /\ op = [p \in Procs |-> "none"]
  /\ recipient = [p \in Procs |-> ""]
  /\ authStateListeners = PopupListeners
  /\ rawError = NoRawError
  /\ endpoint = Responses
  /\ envelope = NoEnvelope
  /\ removedListeners = {}
  /\ emailInput = ""
  /\ sendButtonDisabled = FALSE
  /\ pc = [p \in Procs |-> "idle"]
  /\ stack = [p \in Procs |-> <<>>]
  /\ rv = [p \in Procs |-> NoRv]
  /\ loc = [p \in Procs |-> NoLoc]
  /\ result = [p \in Procs |-> NoRv]
  /\ hist = [p \in Procs |-> NoHist]

NextPopup ==
  \/ Input
  \/ UpdateAuthStatus
  \/ \E p \in Procs :
       Click(p) \/ KeypressEnter(p) \/ HseStatus(p) \/ HaDone(p) \/ PseSent(p)

SpecPopup == InitPopup /\ [][NextPopup]_vars

(***************************************************************************)
(* Properties of GmailApiService._buildEmailMessage (SpecBuild).  The      *)
(* envelope is read back the way a MIME reader does: split into lines at   *)
(* CRLF, the boundary taken from the Content-Type header, the parts found  *)
(* between the delimiter lines of that boundary.                           *)
(***************************************************************************)
\* the least number of a non-empty set of numbers
Least(S) == CHOOSE i \in S : \A j \in S : i <= j

RECURSIVE LinesFrom(_, _)
\* the lines of text s from position start on
LinesFrom(s, start) ==
  LET break == Least({i \in start..(Len(s) - 1) : SubSeq(s, i, i + 1) = CRLF}
                       \cup {Len(s) + 1})
  IN  IF break > Len(s) THEN <<SubSeq(s, start, Len(s))>>
      ELSE <<SubSeq(s, start, break - 1)>> \o LinesFrom(s, break + 2)

\* the lines of the envelope that was built
EnvelopeLines == LinesFrom(envelope.message, 1)

\* the header lines of the envelope: those before its first empty line
EnvelopeHeaders(lines) ==
  SubSeq(lines, 1, Least({i \in 1..Len(lines) : lines[i] = ""} \cup {Len(lines) + 1}) - 1)

MultipartPrefix == "Content-Type: multipart/mixed; boundary=\""

\* line declares a multipart/mixed content with a quoted boundary
DeclaresBoundary(line) ==
  /\ Len(line) > Len(MultipartPrefix)
  /\ SubSeq(line, 1, Len(MultipartPrefix)) = MultipartPrefix
  /\ SubSeq(line, Len(line), Len(line)) = "\""

\* the boundaries that the headers of the envelope declare
DeclaredBoundaries(lines) ==
  LET headers == EnvelopeHeaders(lines)
  IN  { SubSeq(headers[i], Len(MultipartPrefix) + 1, Len(headers[i]) - 1) :
          i \in {j \in 1..Len(headers) : DeclaresBoundary(headers[j])} }

\* the lines that open a part, and those that close the last part
Openings(lines, b) == {i \in 1..Len(lines) : lines[i] = "--" \o b}
Closings(lines, b) == {i \in 1..Len(lines) : lines[i] = "--" \o b \o "--"}

\* the k-th part: the lines after its opening delimiter line and before the
\* next delimiter line; headers up to its first empty line, then the
\* content, which ends before the line break that belongs to the delimiter
PartStart(lines, b, k) ==
  CHOOSE i \in Openings(lines, b) :
    Cardinality({j \in Openings(lines, b) : j < i}) = k - 1
PartEnd(lines, b, k) ==
  Least({i \in Openings(lines, b) \cup Closings(lines, b) : i > PartStart(lines, b, k)}
          \cup {Len(lines) + 1})
PartBlank(lines, b, k) ==
  Least({i \in (PartStart(lines, b, k) + 1)..(PartEnd(lines, b, k) - 1) : lines[i] = ""}
          \cup {PartEnd(lines, b, k)})
PartHeaders(lines, b, k) ==
  SubSeq(lines, PartStart(lines, b, k) + 1, PartBlank(lines, b, k) - 1)
PartContent(lines, b, k) ==
  join(SubSeq(lines, PartBlank(lines, b, k) + 1, PartEnd(lines, b, k) - 2), CRLF)

\* C25: when an envelope was built for a non-empty attachment list, reading
\* it back (parts split at the delimiter lines of the declared boundary,
\* content taken after the empty line of the part) gives, for every
\* attachment i of the list, the attachment's base64 data unchanged as the
\* content of part i + 1, the part after the body part.
C25_AttachmentRoundTrip ==
  (envelope.built /\ envelope.attachments # <<>>)
    => LET lines == EnvelopeLines
       IN  \E b \in DeclaredBoundaries(lines) :
             /\ DeclaredBoundaries(lines) = {b}
             /\ \A i \in 1..Len(envelope.attachments) :
                  /\ Cardinality(Openings(lines, b)) >= i + 1
                  /\ PartContent(lines, b, i + 1) = envelope.attachments[i].data

\* an envelope with two attachments of different data after a body of
\* several lines
C25_Witness ==
  /\ envelope.built
  /\ Len(envelope.attachments) = 2
  /\ envelope.attachments[1].data # envelope.attachments[2].data
  /\ Len(envelope.emailData.body) > 5
  /\ PartContent(EnvelopeLines, envelope.boundary, 3) = envelope.attachments[2].data

\* C26: an envelope built for an empty attachment list consists of exactly
\* the lines To, Subject, MIME-Version: 1.0 and Content-Type: text/plain;
\* charset=UTF-8, one empty line and then the body; it declares no boundary
\* and none of its lines is a delimiter of the boundary drawn for the call.
C26_PlainEnvelope ==
  (envelope.built /\ envelope.attachments = <<>>)
    => LET lines == EnvelopeLines
       IN  /\ Len(lines) >= 6
           /\ SubSeq(lines, 1, 5) =
                << "To: " \o envelope.emailData.to,
                   "Subject: " \o envelope.emailData.subject,
                   "MIME-Version: 1.0",
                   "Content-Type: text/plain; charset=UTF-8",
                   "" >>
           /\ join(SubSeq(lines, 6, Len(lines)), CRLF) = envelope.emailData.body
           /\ DeclaredBoundaries(lines) = {}
           /\ Openings(lines, envelope.boundary) = {}
           /\ Closings(lines, envelope.boundary) = {}

\* an envelope without attachments whose body has several lines
C26_Witness ==
  /\ envelope.built
  /\ envelope.attachments = <<>>
  /\ Len(EnvelopeLines) > 6
  /\ EnvelopeLines[4] = "Content-Type: text/plain; charset=UTF-8"

\* the header lines that the part of attachment a must have
AttachmentHeaders(a) ==
  << "Content-Type: " \o (IF a.type = "" THEN "application/octet-stream" ELSE a.type),
     "Content-Disposition: attachment; filename=\"" \o a.name \o "\"",
     "Content-Transfer-Encoding: base64" >>

\* C27: an envelope built for n >= 1 attachments declares multipart/mixed
\* with the boundary of the call; after the headers come the text/plain body
\* part and then one part per attachment in list order, each with its
\* Content-Type, its Content-Disposition naming the file, Content-Transfer-
\* Encoding: base64 and the payload; the closing delimiter is the last line;
\* there are exactly n + 1 opening delimiter lines and one closing delimiter.
C27_MultipartStructure ==
  (envelope.built /\ envelope.attachments # <<>>)
    => LET lines == EnvelopeLines
           b == envelope.boundary
           n == Len(envelope.attachments)
       IN  /\ DeclaredBoundaries(lines) = {b}
           /\ Cardinality(Openings(lines, b)) = n + 1
           /\ Closings(lines, b) = {Len(lines)}
           /\ PartStart(lines, b, 1) = Len(EnvelopeHeaders(lines)) + 2
           /\ PartHeaders(lines, b, 1) = <<"Content-Type: text/plain; charset=UTF-8">>
           /\ PartContent(lines, b, 1) = envelope.emailData.body
           /\ \A i \in 1..n :
                /\ PartHeaders(lines, b, i + 1) = AttachmentHeaders(envelope.attachments[i])
                /\ PartContent(lines, b, i + 1) = envelope.attachments[i].data

\* an envelope with two attachments, one of them without a type, closed by
\* the closing delimiter
C27_Witness ==
  /\ envelope.built
  /\ Len(envelope.attachments) = 2
  /\ \E i \in 1..2 : envelope.attachments[i].type = ""
  /\ Cardinality(Openings(EnvelopeLines, envelope.boundary)) = 3
  /\ EnvelopeLines[Len(EnvelopeLines)] = "--" \o envelope.boundary \o "--"

(***************************************************************************)
(* Properties of ErrorHandler.handleError (SpecHandle).                    *)
(***************************************************************************)
\* the error handed to handleError has a policy with autoRetry = true
HasAutoRetry ==
  /\ classifyError(rawError) \in StrategyKinds
  /\ RECOVERY_STRATEGIES[classifyError(rawError)].autoRetry

\* C34: handleError invokes retryCallback only for a kind whose policy has
\* autoRetry = true, at most maxRetries times of that policy and never after
\* an invocation that succeeded; it returns {success: true, result} for the
\* invocation that succeeded, the failed response of the last retry error
\* with context retriesExhausted after maxRetries failed invocations, and
\* the failed response of the handled error when it invoked nothing.
C34_HandleErrorBounded ==
  \A p \in Procs :
    op[p] = "handleError"
      => LET calls == hist[p].callbacks
             n == Len(calls)
         IN  /\ n > 0 => HasAutoRetry
             /\ ~HasAutoRetry => n = 0
             /\ HasAutoRetry => n <= RECOVERY_STRATEGIES[classifyError(rawError)].maxRetries
             /\ \A i \in 1..(n - 1) : calls[i].kind = "throw"
             /\ pc[p] = "done"
                  => /\ result[p].kind = "ret"
                     /\ n = 0 => result[p].val = createErrorResponse(rawError, <<>>)
                     /\ (n > 0 /\ calls[n].kind = "ret")
                          => result[p].val = [success |-> TRUE, result |-> calls[n].val]
                     /\ (n > 0 /\ calls[n].kind = "throw")
                          => /\ n = RECOVERY_STRATEGIES[classifyError(rawError)].maxRetries
                             /\ result[p].val =
                                  createErrorResponse(calls[n].val, [retriesExhausted |-> TRUE])

\* a handleError for a rate-limit error whose three retries all failed
C34_Witness ==
  \E p \in Procs :
    /\ op[p] = "handleError" /\ pc[p] = "done"
    /\ classifyError(rawError) = RATE_LIMIT
    /\ Len(hist[p].callbacks) = 3
    /\ hist[p].callbacks[3].kind = "throw"
    /\ ~result[p].val.success
    /\ result[p].val.context = [retriesExhausted |-> TRUE]

(***************************************************************************)
(* Properties of GmailApiService.sendEmail (SpecSend).                     *)
(***************************************************************************)
\* the kind _handleApiError sees for the i-th answer of the mail endpoint
AnswerKind(p, i) ==
  IF hist[p].postLog[i].ok THEN "ok" ELSE classifyError(apiRequestError(hist[p].postLog[i]))

\* every answer p received so far was a failure of one of the kinds
OnlyAnswers(p, kinds) ==
  \A i \in 1..Len(hist[p].postLog) : AnswerKind(p, i) \in kinds

\* the failed result _retryWithBackoff returns when the attempts are used up
RetriesExhausted(r) ==
  /\ r.kind = "ret"
  /\ ~r.val.success
  /\ r.val.context = [attempts |-> maxRetries + 1]

\* C1: when every POST fails with api.network_error and every token request
\* succeeds, one sendEmail issues at most 1 + maxRetries POSTs, and when it
\* returns it has issued exactly that many and reports retries exhausted.
C1_RetryBound ==
  \A p \in Procs :
    (op[p] = "sendEmail" /\ OnlyAnswers(p, {NETWORK_ERROR}) /\ hist[p].tokenErrors = 0)
      => /\ hist[p].posts <= 1 + maxRetries
         /\ pc[p] = "done" =>
              /\ hist[p].posts = 1 + maxRetries
              /\ RetriesExhausted(result[p])

\* C2: when the endpoint answers with rate-limit and network failures only,
\* a sendEmail call stays within the fixed budget of 1 + maxRetries POSTs
\* (so it returns after a bounded number of POSTs).
C2_BoundedPosts ==
  \A p \in Procs :
    (op[p] = "sendEmail" /\ OnlyAnswers(p, {RATE_LIMIT, NETWORK_ERROR}))
      => hist[p].posts <= 1 + maxRetries

\* C3: when the endpoint keeps answering auth.token_expired, one sendEmail
\* invokes the credential refresh at most once and sends at most twice.
C3_OneAuthRecovery ==
  \A p \in Procs :
    (op[p] = "sendEmail" /\ OnlyAnswers(p, {TOKEN_EXPIRED}))
      => /\ hist[p].refreshCalls <= 1
         /\ hist[p].posts <= 2

\* C4: when the first POST is answered with status 401 (any message), every
\* token request and the refresh succeed and the endpoint answers 2xx from
\* then on, sendEmail returns success with the id of the second answer and
\* the refresh ran exactly once.
C4_RefreshOn401 ==
  \A p \in Procs :
    ( /\ op[p] = "sendEmail" /\ pc[p] = "done"
      /\ Len(hist[p].postLog) >= 1
      /\ hist[p].postLog[1].status = 401
      /\ \A i \in 2..Len(hist[p].postLog) : hist[p].postLog[i].ok
      /\ hist[p].tokenErrors = 0 /\ hist[p].refreshErrors = 0 )
      => /\ result[p].kind = "ret"
         /\ result[p].val.success
         /\ Len(hist[p].postLog) = 2
         /\ result[p].val.messageId = hist[p].postLog[2].id
         /\ hist[p].refreshCalls = 1

\* the last POST of p was answered with a failure of kind auth.token_expired
LastPostExpired(p) ==
  /\ hist[p].postLog # <<>>
  /\ AnswerKind(p, Len(hist[p].postLog)) = TOKEN_EXPIRED

\* what the function that just completed in p handed to its caller, or the
\* result of the whole call once it is done
Outcome(p) == IF pc[p] = "done" THEN result[p] ELSE rv[p]

\* C32: when a POST of sendEmail was answered auth.token_expired and the
\* refresh that followed threw, the handler returns the error response made
\* of the refresh error without sending; from then on the call issues no
\* POST and passes that response on unchanged, up to the caller of sendEmail.
C32_FailedRefreshSurfaced ==
  [][\A p \in Procs :
       (op[p] = "sendEmail" /\ LastPostExpired(p))
         => /\ (pc[p] = "hae_refreshed" /\ rv[p].kind = "throw")
                 => /\ Outcome(p)' = Ret(createErrorResponse(rv[p].val, <<>>))
                    /\ hist'[p].posts = hist[p].posts
                    /\ pc'[p] \in {"done", "hae_resent", "rb_sent"}
            /\ hist[p].refreshErrors >= 1
                 => /\ Outcome(p)' = Outcome(p)
                    /\ hist'[p].posts = hist[p].posts
                    /\ pc'[p] \in {"done", "hae_resent", "rb_sent"}]_vars

\* a sendEmail that ended after a token-expired answer and a failed refresh,
\* with a failed result that names the refresh
C32_Witness ==
  \E p \in Procs :
    /\ op[p] = "sendEmail" /\ pc[p] = "done"
    /\ LastPostExpired(p)
    /\ hist[p].refreshErrors = 1
    /\ result[p].kind = "ret" /\ ~result[p].val.success
    /\ hist[p].posts = Len(hist[p].postLog)

\* C20: when the first POST fails with api.server_error or
\* auth.permission_denied, sendEmail issues no further POST, refreshes no
\* credential, does not sleep, and has returned a failed result of that kind.
C20_NoRetryForServerOrPermission ==
  \A p \in Procs :
    ( /\ op[p] = "sendEmail"
      /\ Len(hist[p].postLog) >= 1
      /\ AnswerKind(p, 1) \in {SERVER_ERROR, PERMISSION_DENIED} )
      => /\ hist[p].posts = 1
         /\ hist[p].refreshCalls = 0
         /\ hist[p].sleeps = 0
         /\ pc[p] = "done"
         /\ result[p].kind = "ret"
         /\ ~result[p].val.success
         /\ result[p].val.errorType = AnswerKind(p, 1)

\* a send whose first POST was answered 500 has returned api.server_error
C20_Witness ==
  \E p \in Procs :
    /\ op[p] = "sendEmail" /\ pc[p] = "done"
    /\ Len(hist[p].postLog) = 1
    /\ hist[p].postLog[1].status = 500
    /\ result[p].kind = "ret"
    /\ result[p].val.errorType = SERVER_ERROR

\* the step of p in which _handleApiError ran: a POST was answered with a
\* failure, or getValidToken threw
FailedAnswer(p) ==
  /\ pc[p] = "se_post"
  /\ Len(hist'[p].postLog) = Len(hist[p].postLog) + 1
  /\ ~hist'[p].postLog[Len(hist'[p].postLog)].ok
FailedToken(p) == pc[p] = "se_token" /\ rv[p].kind = "throw" /\ pc'[p] # "se_token"
\* the error _handleApiError was given in that step
HandledError(p) ==
  IF pc[p] = "se_post"
    THEN apiRequestError(hist'[p].postLog[Len(hist'[p].postLog)])
    ELSE rv[p].val
\* _handleApiError did not return to the caller of sendEmail: it awaits the
\* credential refresh or a sleep, after which the send is repeated
EntersRetry(p) ==
  /\ Len(stack'[p]) >= Len(stack[p])
  /\ pc'[p] \in {"ct_start", "rl_sleep", "rb_sleep"}

C28_FreshTokenPerAttempt ==
  [][\A p \in Procs :
       hist'[p].posts = hist[p].posts + 1
         => /\ pc[p] = "se_token"
            /\ hist[p].returned.kind = "ret"
            /\ hist'[p].postTokens = Append(hist[p].postTokens, hist[p].returned.val)
            /\ loc'[p].tok = hist[p].returned.val]_vars

\* a second POST was issued with another token than the first
C28_Witness ==
  \E p \in Procs :
    /\ Len(hist[p].postTokens) >= 2
    /\ hist[p].postTokens[1] # hist[p].postTokens[2]
    /\ hist[p].postTokens[2] # NoToken

\* the backoff sleeps of p in order
BackoffDelays(p) ==
  LET d == hist[p].delays
  IN  [i \in 1..Cardinality({j \in 1..Len(d) : d[j].kind = "backoff"}) |->
         d[CHOOSE j \in 1..Len(d) :
             /\ d[j].kind = "backoff"
             /\ Cardinality({k \in 1..j : d[k].kind = "backoff"}) = i]]

\* C29: along a send whose attempts keep failing with network errors, the
\* n-th backoff sleep lasts 2^n seconds and uses attempt number n, which
\* never exceeds 3.
C29_BackoffGrows ==
  \A p \in Procs :
    (op[p] = "sendEmail" /\ OnlyAnswers(p, {NETWORK_ERROR}))
      => \A n \in 1..Len(BackoffDelays(p)) :
           /\ n <= maxRetries
           /\ BackoffDelays(p)[n].attempt = n
           /\ BackoffDelays(p)[n].ms = (2 ^ n) * 1000

\* the rate-limit sleeps of p
RateWaits(p) == {i \in 1..Len(hist[p].delays) : hist[p].delays[i].kind = "rate"}

\* C30: the sleep after a POST answered with a rate-limit error lasts the
\* Retry-After duration of that response, and 1000 ms only when the
\* response carried none.
C30_RateLimitWaitsRetryAfter ==
  \A p \in Procs :
    \A i \in RateWaits(p) :
      LET d == hist[p].delays[i]
          r == hist[p].postLog[d.after]
      IN  d.after >= 1
            => d.ms = (IF r.retryAfterHeader # "" THEN parseInt(r.retryAfterHeader) * 1000
                       ELSE rateLimitDelay)

(***************************************************************************)
(* Properties of ErrorHandler.classifyError (SpecClassify).                *)
(***************************************************************************)
\* classifyError has returned for the raw error of the run
Classified(p) == op[p] = "classifyError" /\ pc[p] = "done"

\* C18: a raw error whose message contains both "token" and "expired" is
\* classified auth.token_expired whatever its status, and the policy of that
\* kind has autoRetry = true and maxRetries = 1.
C18_TokenExpiredPolicy ==
  \A p \in Procs :
    ( /\ Classified(p)
      /\ rawError.type # "null"
      /\ includes(rawError.message, "token") /\ includes(rawError.message, "expired") )
      => /\ result[p] = Ret(TOKEN_EXPIRED)
         /\ RECOVERY_STRATEGIES[TOKEN_EXPIRED].autoRetry
         /\ RECOVERY_STRATEGIES[TOKEN_EXPIRED].maxRetries = 1
         /\ isRetryableError(TOKEN_EXPIRED)

\* an error with status 403 and an expired-token message was classified
C18_Witness ==
  \E p \in Procs :
    /\ Classified(p)
    /\ rawError.status = 403
    /\ rawError.message = "permission: token expired"
    /\ result[p] = Ret(TOKEN_EXPIRED)

\* the rules of the classifier in priority order, for message m and status st
ClassifierRules(m, st) ==
  << [kind |-> TOKEN_EXPIRED, hit |-> includes(m, "token") /\ includes(m, "expired")],
     [kind |-> INVALID_CREDENTIALS,
      hit |-> includes(m, "invalid_grant") \/ includes(m, "unauthorized")],
     [kind |-> PERMISSION_DENIED, hit |-> includes(m, "permission") \/ st = 403],
     [kind |-> VERIFICATION_REQUIRED,
      hit |-> includes(m, "verification") \/ includes(m, "not completed")],
     [kind |-> RATE_LIMIT, hit |-> st = 429 \/ includes(m, "rate limit")],
     [kind |-> SERVER_ERROR, hit |-> st >= 500 \/ includes(m, "server error")],
     [kind |-> NETWORK_ERROR, hit |-> includes(m, "network") \/ includes(m, "fetch")],
     [kind |-> INVALID_EMAIL, hit |-> includes(m, "email") /\ includes(m, "invalid")],
     [kind |-> FILE_TOO_LARGE, hit |-> includes(m, "file") /\ includes(m, "large")],
     [kind |-> MISSING_REQUIRED_FIELD, hit |-> includes(m, "required")],
     [kind |-> QUOTA_EXCEEDED, hit |-> includes(m, "quota")] >>

\* the kind of the first rule that matches the raw error, else unknown
FirstMatch(raw) ==
  LET rules == ClassifierRules(raw.message, IF raw.type = "object" THEN raw.status ELSE 0)
      hits == {i \in 1..Len(rules) : rules[i].hit}
  IN  IF raw.type = "null" \/ hits = {} THEN UNKNOWN
      ELSE rules[CHOOSE i \in hits : \A j \in hits : i <= j].kind

\* C19: for null, a bare string or an object with any listed keywords and
\* status, classifyError returns the kind of the first matching rule of the
\* ordered list, else unknown; "permission" with "network" is
\* auth.permission_denied.
C19_FirstMatchWins ==
  \A p \in Procs :
    Classified(p)
      => /\ result[p] = Ret(FirstMatch(rawError))
         /\ (includes(rawError.message, "permission") /\ includes(rawError.message, "network")
               /\ ~(includes(rawError.message, "token") /\ includes(rawError.message, "expired")))
              => result[p] = Ret(PERMISSION_DENIED)

\* the bare string "permission network" was classified auth.permission_denied
C19_Witness ==
  \E p \in Procs :
    /\ Classified(p)
    /\ rawError = [type |-> "string", message |-> "permission network", status |-> 0]
    /\ result[p] = Ret(PERMISSION_DENIED)

(***************************************************************************)
(* Properties of AuthService.getValidToken (SpecTokens).                   *)
(***************************************************************************)
\* processes whose interactive chrome.identity.getAuthToken request is pending
PendingInteractive == {p \in Procs : pc[p] = "au_idp" /\ loc[p].interactive}

\* C5: while no credential exists in memory or in storage, at most one
\* interactive acquisition request is pending at the identity provider: a
\* second getValidToken caller joins the acquisition in flight.
C5_SingleAcquisition ==
  (currentToken = NoToken /\ storedToken = NoToken) => Cardinality(PendingInteractive) <= 1

\* C11: the first acquisition getValidToken requests is non-interactive, and
\* an interactive one is requested only after a non-interactive one of the
\* same call has failed.
C11_SilentBeforeInteractive ==
  \A p \in Procs :
    op[p] = "getValidToken"
      => \A i \in 1..Len(hist[p].idp) :
            hist[p].idp[i].interactive
              => \E j \in 1..(i - 1) : /\ ~hist[p].idp[j].interactive
                                       /\ hist[p].idp[j].outcome = "failed"

\* the introspections of a getValidToken call, as a set
Introspections(p) == {hist[p].introspected[i] : i \in 1..Len(hist[p].introspected)}

\* C12: a token returned by getValidToken was reported live by an
\* introspection of that token in the same call or was obtained from the
\* identity provider in that call, and no introspection of it in that call
\* failed; the persisted token is introspected only after the in-memory one
\* was absent or failed.
C12_ReturnedTokenVerified ==
  \A p \in Procs :
    (op[p] = "getValidToken" /\ hist[p].returned.kind = "ret")
      => LET t == hist[p].returned.val
         IN  /\ \/ [tok |-> t, live |-> TRUE] \in Introspections(p)
                \/ t \in hist[p].acquired
             /\ [tok |-> t, live |-> FALSE] \notin Introspections(p)
             /\ Len(hist[p].introspected) = 2 => ~hist[p].introspected[1].live

(***************************************************************************)
(* Properties of refreshToken, clearTokens, authenticate and the listener  *)
(* notifications (SpecSend, SpecAuth).                                     *)
(***************************************************************************)
\* p is inside a refreshToken call
InRefresh(p) ==
  \E i \in 1..Len(stack[p]) : stack[p][i].pc \in {"rt_cleared", "rt_silent", "rt_interactive"}

\* C13: when refreshToken sends its first acquisition request to the
\* identity provider, the credential it started with is gone from memory,
\* from storage and from the identity provider's cache.
C13_DiscardBeforeAcquire ==
  \A p \in Procs :
    (InRefresh(p) /\ pc[p] = "au_idp" /\ Len(hist[p].idp) = 1)
      => hist[p].heldBefore \cap {currentToken, storedToken, idpCache} = {}

\* p runs its operation alone: no other operation of the service is in flight
Alone(p) == \A q \in Procs \ {p} : op[q] = "none"

\* C31: in a refreshToken call (running alone), an interactive acquisition
\* is requested only after a non-interactive acquisition of the same call
\* has failed; and a refreshToken in which both acquisitions failed has
\* thrown an error and left no credential in memory.
C31_InteractiveFallback ==
  \A p \in Procs :
    (op[p] = "refreshToken" /\ Alone(p))
      => /\ \A i \in 1..Len(hist[p].idp) :
              hist[p].idp[i].interactive
                => \E j \in 1..(i - 1) : /\ ~hist[p].idp[j].interactive
                                         /\ hist[p].idp[j].outcome = "failed"
         /\ (pc[p] = "done" /\ result[p].kind = "throw")
              => currentToken = NoToken

\* the listener invocations the step adds to the record of p
NewNotifications(p) ==
  SubSeq(hist'[p].notified, Len(hist[p].notified) + 1, Len(hist'[p].notified))

\* the step invokes every registered listener exactly once, with (a, t)
NotifiesAllOnce(p, a, t) ==
  \A i \in 1..Len(authStateListeners) :
    Cardinality({j \in 1..Len(NewNotifications(p)) :
                   NewNotifications(p)[j].listener = authStateListeners[i]}) = 1
  /\ \A j \in 1..Len(NewNotifications(p)) :
        /\ NewNotifications(p)[j].authenticated = a
        /\ NewNotifications(p)[j].token = t

\* the step in which clearTokens returns true / authenticate returns its token
ClearTokensReturns(p) == pc[p] = "ct_clear" /\ loc[p].ok /\ pc'[p] # "ct_clear"
AuthenticateReturns(p) == pc[p] = "au_save" /\ loc[p].ok /\ pc'[p] # "au_save"

\* C14: when clearTokens returns successfully, the in-memory token is null,
\* the persisted token is absent, the identity provider's cache holds none
\* of the tokens that were in memory or in storage before the call, and
\* every registered listener was notified exactly once with authenticated
\* = false.
C14_ClearedEverywhere ==
  [][\A p \in Procs :
       ClearTokensReturns(p)
         => /\ currentToken' = NoToken
            /\ storedToken' = NoToken
            /\ idpCache' \notin hist[p].heldBefore
            /\ NotifiesAllOnce(p, FALSE, NoToken)]_vars

\* C15: when authenticate returns a token t, the persisted and the in-memory
\* credential equal t and every registered listener was notified with
\* (true, t).
C15_AcquisitionPersisted ==
  [][\A p \in Procs :
       AuthenticateReturns(p)
         => /\ storedToken' = loc[p].tok
            /\ currentToken' = loc[p].tok
            /\ NotifiesAllOnce(p, TRUE, loc[p].tok)]_vars

\* what listener l was last told by p's operation: "present", "absent" or "none"
LastTold(p, l) ==
  LET idx == {i \in 1..Len(hist[p].notified) : hist[p].notified[i].listener = l}
      last == CHOOSE i \in idx : \A j \in idx : j <= i
  IN  IF idx = {} THEN "none"
      ELSE IF hist[p].notified[last].authenticated THEN "present" ELSE "absent"

\* C16: an operation that changed the in-memory credential between absent
\* and present has, when it completes, told every registered listener the
\* new authenticated state.
C16_TransitionsNotified ==
  \A p \in Procs :
    (pc[p] = "done" /\ hist[p].flip # "none")
      => \A i \in 1..Len(authStateListeners) :
            LastTold(p, authStateListeners[i]) = hist[p].flip

\* C35: an authenticate call (running alone) that failed has left the
\* in-memory credential as it was, so it has not turned it from absent to
\* present, and it has told no listener of a successful authentication.
C35_FailedAcquisitionAtomic ==
  \A p \in Procs :
    (op[p] = "authenticate" /\ Alone(p) /\ pc[p] = "done" /\ result[p].kind = "throw")
      => /\ hist[p].flip = "none"
         /\ \A i \in 1..Len(hist[p].notified) : ~hist[p].notified[i].authenticated

\* C36: when an AuthService operation that ran alone, from a state in which
\* memory and storage agreed, has completed and a credential is in memory,
\* the persisted credential is present and equal to it, whatever storage
\* and identity-provider calls failed on the way.
C36_MemoryMatchesStorage ==
  \A p \in Procs :
    (op[p] \in AuthOps /\ Alone(p) /\ pc[p] = "done" /\ currentToken # NoToken)
      => storedToken = currentToken

\* C33: a callback for which removeAuthStateListener was called, and which
\* was not subscribed again since, is invoked by no later notification.
C33_UnsubscribeEffective ==
  [][\A p \in Procs :
       \A j \in 1..Len(NewNotifications(p)) :
          NewNotifications(p)[j].listener \notin removedListeners]_vars

\* the step invokes the registered listeners, each registration once and in
\* registration order, with (a, t)
NotifiesEveryRegistration(p, a, t) ==
  /\ Len(NewNotifications(p)) = Len(authStateListeners)
  /\ \A i \in 1..Len(authStateListeners) :
        /\ NewNotifications(p)[i].listener = authStateListeners[i]
        /\ NewNotifications(p)[i].authenticated = a
        /\ NewNotifications(p)[i].token = t

\* the step in which initialize adopts the stored token it found live
InitializeAdopts(p) == pc[p] = "ai_validate" /\ pc'[p] \notin {"ai_validate", "ai_clear"}

\* C37: when a registered listener throws, the notifying step of
\* authenticate, clearTokens or initialize still invokes every registered
\* listener, and the operation goes on as it does without a throwing
\* listener: authenticate returns its token and clearTokens and initialize
\* return true, with the credential state the step gives otherwise.
C37_ListenerIsolation ==
  [][\A p \in Procs :
       (\E i \in 1..Len(authStateListeners) : authStateListeners[i] \in ThrowingListeners)
         => /\ AuthenticateReturns(p)
                 => /\ NotifiesEveryRegistration(p, TRUE, loc[p].tok)
                    /\ Outcome(p)' = Ret(loc[p].tok)
                    /\ UNCHANGED authVars
            /\ ClearTokensReturns(p)
                 => /\ NotifiesEveryRegistration(p, FALSE, NoToken)
                    /\ Outcome(p)' = Ret(TRUE)
                    /\ currentToken' = NoToken
                    /\ UNCHANGED <<storedToken, idpCache>>
            /\ InitializeAdopts(p)
                 => /\ NotifiesEveryRegistration(p, TRUE, loc[p].tok)
                    /\ Outcome(p)' = Ret(TRUE)
                    /\ currentToken' = loc[p].tok
                    /\ UNCHANGED <<storedToken, idpCache>>]_vars

\* an authenticate that returned its token after a notification in which the
\* first listener threw and the second was invoked all the same
C37_Witness ==
  \E p \in Procs :
    /\ op[p] = "authenticate" /\ pc[p] = "done"
    /\ result[p].kind = "ret" /\ result[p].val = currentToken
    /\ Len(hist[p].notified) = 2
    /\ hist[p].notified[1].threw
    /\ ~hist[p].notified[2].threw

(***************************************************************************)
(* Properties of two sends racing through the refresh path (SpecRace).     *)
(***************************************************************************)
\* the send of p is over, or has come through its refresh and holds the
\* token for its next POST
Settled(p) == pc[p] = "done" \/ (pc[p] = "se_token" /\ rv[p].kind = "ret")

\* C17: when both sends that were handed the same stale token and were
\* answered "token expired" have come through their refresh paths (here:
\* without any storage operation failing), the in-memory and the persisted
\* credential agree: both absent, or both the token the identity provider
\* has cached.
C17_RaceKeepsAgreement ==
  (\A p \in Procs : Settled(p) /\ ~hist[p].storageFailed)
    => /\ currentToken = storedToken
       /\ currentToken # NoToken => idpCache = currentToken

(***************************************************************************)
(* Properties of EmailService.sendEmailWithAttachment (Spec).              *)
(***************************************************************************)
Finished(p) == op[p] = "sendEmailWithAttachment" /\ pc[p] = "done"

\* C6: a recipient that fails the address pattern gets a failed result of
\* kind validation.invalid_email.
C6_InvalidEmailKind ==
  \A p \in Procs :
    (Finished(p) /\ ~MatchesEmailRegex(recipient[p]))
      => /\ result[p].kind = "ret"
         /\ ~result[p].val.success
         /\ result[p].val.errorType = INVALID_EMAIL

\* C7: a recipient that fails the address pattern as passed in never reaches
\* the transport: no sendEmail call, no POST, no envelope with it in To.
C7_NoTransportForInvalid ==
  \A p \in Procs :
    (op[p] = "sendEmailWithAttachment" /\ ~MatchesEmailRegex(recipient[p]))
      => /\ hist[p].transportCalls = 0
         /\ hist[p].posts = 0
         /\ hist[p].toHeaders = {}

\* C8: a call with a recipient the address check rejects issues no network
\* request at all, whatever state the service started in.
C8_NoNetworkForInvalid ==
  \A p \in Procs :
    (op[p] = "sendEmailWithAttachment" /\ ~isValidEmail(recipient[p]))
      => hist[p].net = {}

\* C9: the orchestrator hands back the transport's result: the same error
\* kind and retryable flag on failure, the same messageId on success.
C9_TransportResultUnchanged ==
  \A p \in Procs :
    (Finished(p) /\ hist[p].transportResult.kind = "ret")
      => /\ result[p].kind = "ret"
         /\ result[p].val.success = hist[p].transportResult.val.success
         /\ IF result[p].val.success
              THEN result[p].val.messageId = hist[p].transportResult.val.messageId
              ELSE /\ result[p].val.errorType = hist[p].transportResult.val.errorType
                   /\ result[p].val.isRetryable = hist[p].transportResult.val.isRetryable

\* C24: when the first POST of a sendEmailWithAttachment call for recipient
\* r is answered 2xx with id m, the call issues exactly one POST and returns
\* success = true, messageId = m, recipient = r.
C24_SuccessScenario ==
  \A p \in Procs :
    ( /\ op[p] = "sendEmailWithAttachment"
      /\ hist[p].postLog # <<>>
      /\ hist[p].postLog[1].ok )
      => /\ hist[p].posts = 1
         /\ Len(hist[p].postLog) = 1
         /\ pc[p] = "swa_sent" \/ Finished(p)
         /\ Finished(p) => /\ result[p].kind = "ret"
                            /\ result[p].val.success
                            /\ result[p].val.messageId = hist[p].postLog[1].id
                            /\ result[p].val.recipient = recipient[p]

\* the scenario: the send for "a@b.c" returned success with id "m1"
C24_Witness ==
  \E p \in Procs :
    /\ Finished(p) /\ op[p] = "sendEmailWithAttachment"
    /\ recipient[p] = "a@b.c"
    /\ hist[p].posts = 1
    /\ result[p] = Ret([success |-> TRUE, message |-> "Email sent successfully!",
                        messageId |-> "m1", recipient |-> "a@b.c"])

\* the stored configuration fails the checks of sendEmailWithAttachment
BadConfig(c) ==
  \/ ~c.present
  \/ trim(c.subject) = "" \/ trim(c.body) = ""
  \/ Len(c.subject) > 200 \/ Len(c.body) > 10000

\* C22: for a well-formed recipient and a stored configuration that is
\* absent, has a blank subject or body, a subject over 200 or a body over
\* 10,000 characters, sendEmailWithAttachment never calls the transport,
\* requests no token and issues no POST, and its result is a failure.
C22_ConfigFailFast ==
  \A p \in Procs :
    (op[p] = "sendEmailWithAttachment" /\ isValidEmail(recipient[p]) /\ BadConfig(emailConfig))
      => /\ hist[p].transportCalls = 0
         /\ hist[p].posts = 0
         /\ hist[p].net \cap {"post", "idp_interactive", "idp_silent"} = {}
         /\ hist[p].returned = NoRv
         /\ \A i \in 1..Len(stack[p]) : stack[p][i].pc # "se_token"
         /\ Finished(p) => result[p].kind = "ret" /\ ~result[p].val.success

\* a send with a subject of 201 characters has returned a failure
C22_Witness ==
  \E p \in Procs :
    /\ Finished(p) /\ isValidEmail(recipient[p])
    /\ emailConfig.present /\ Len(emailConfig.subject) = 201
    /\ ~result[p].val.success
    /\ hist[p].transportCalls = 0

\* C38: a configuration that the store operations accepted and persisted is
\* accepted by Validator.validateEmailConfig, the check that
\* sendEmailWithAttachment applies to it.
C38_StoredConfigSendable ==
  emailConfig.present => validateEmailConfig(emailConfig) = <<>>

\* C23: whatever store operations preceded the send, every attachment that
\* sendEmailWithAttachment hands to the transport, and so to the message
\* builder, decodes to at most 1 MiB.
C23_AttachmentSizeBound ==
  \A p \in Procs :
    (op[p] = "sendEmailWithAttachment" /\ hist[p].posts >= 1)
      => \A i \in 1..Len(hist[p].attachments) :
           decodedSize(hist[p].attachments[i].data) <= 1024 * 1024

\* C10: a completed sendEmailWithAttachment returned a result (nothing was
\* thrown to the caller) with a boolean success, and a failed result carries
\* an error kind of the classifier.
C10_NeverThrows ==
  \A p \in Procs :
    Finished(p)
      => /\ result[p].kind = "ret"
         /\ result[p].val.success \in BOOLEAN
         /\ ~result[p].val.success => result[p].val.errorType \in ERROR_TYPES \cup {UNKNOWN}

\* a send whose POST failed came back as a failed result
C10_Witness ==
  \E p \in Procs :
    /\ Finished(p)
    /\ hist[p].posts > 0
    /\ result[p].kind = "ret"
    /\ ~result[p].val.success

\* the run of p is awaiting its call of emailService.sendEmailWithAttachment
SendInProgress(p) == pc[p] = "pse_sending"

\* C39: at most one call of sendEmailWithAttachment is in progress at any
\* time, and once no run that was started is still going the send button
\* is enabled.
C39_OneSendInFlight ==
  /\ Cardinality({p \in Procs : SendInProgress(p)}) <= 1
  /\ (\A p \in Procs : pc[p] \in {"idle", "done"}) => ~sendButtonDisabled

====
